---- MODULE Spec2Model ----
(***************************************************************************)
(* Model of the UPS power manager (src/app/power_manager.py): the power    *)
(* state reconciliation cycle, the single-instance lock of the invocation  *)
(* and the notifier's APP_ERROR debounce.                                  *)
(*                                                                         *)
(* Abstractions: one cycle (PowerManager().run) is atomic and reads one    *)
(* clock value; file and config writes succeed; the wall clock is UTC.     *)
(***************************************************************************)
EXTENDS Integers, Sequences, FiniteSets, TLC

(***************************************************************************)
(* Program constants                                                       *)
(***************************************************************************)
CHECK_ITERATIONS == 4
CHECK_INTERVAL_SECONDS == 15
SecondsPerMinute == 60
SecondsPerDay == 86400
DEBOUNCE_SECONDS == 3600

(***************************************************************************)
(* Bounds of the model                                                     *)
(***************************************************************************)
MaxTicks == 6           \* sub-poll intervals the clock may advance in all
MaxSentinels == 2       \* sentinel hosts configured at most
MaxWolDelay == 1        \* WOL_DELAY_MINUTES is drawn from 0..MaxWolDelay
MaxLines == 3           \* lines of the config file before a save
MaxValueLen == 2        \* characters of a value passed to save_setting_to_config
MaxStaleMinutes == 1    \* CLIENT_STALE_TIMEOUT_MINUTES is drawn from 0..MaxStaleMinutes
MaxInvocations == 3     \* invocations the scheduler starts (lock model)
MaxSends == 3           \* notifier calls made by the engine (notifier model)
TicksPerSecond == 2     \* resolution of datetime.now() in the notifier model

\* The first cycle runs at 23:58:00 of day 0, so that the bounded run covers
\* a schedule window and its end.
StartTime == SecondsPerDay - 2 * SecondsPerMinute
EndOfTime == StartTime + MaxTicks * CHECK_INTERVAL_SECONDS

(***************************************************************************)
(* Clock formatting: strftime('%Y-%m-%d'), strftime('%A'), strftime('%H:%M')*)
(* Times of day are strings; a string is the sequence of its characters,   *)
(* digit d as d and ':' as Colon, which keeps the ASCII order.             *)
(***************************************************************************)
Colon == 10

RECURSIVE StrLess(_, _)
StrLess(a, b) ==
    IF b = <<>> THEN FALSE
    ELSE IF a = <<>> THEN TRUE
    ELSE IF Head(a) # Head(b) THEN Head(a) < Head(b)
    ELSE StrLess(Tail(a), Tail(b))

StrLeq(a, b) == a = b \/ StrLess(a, b)

HM(h, m) == <<h \div 10, h % 10, Colon, m \div 10, m % 10>>

DateOf(t) == t \div SecondsPerDay

TimeOf(t) ==
    LET mins == (t % SecondsPerDay) \div SecondsPerMinute
    IN  HM(mins \div 60, mins % 60)

DayNames == <<"thursday", "friday", "saturday", "sunday",
              "monday", "tuesday", "wednesday">>

DayNameOf(t) == DayNames[(DateOf(t) % 7) + 1]

EndOfDay == HM(23, 59)

(***************************************************************************)
(* Schedule records of the configuration, in file order                    *)
(***************************************************************************)
NoDate == 0 - 1      \* a key the record does not have (params.get -> None)
NoTime == <<>>

OneTime(section, date, time, action) ==
    [section |-> section, TYPE |-> "one-time", DATE |-> date,
     DAY_OF_WEEK |-> "none", TIME |-> time, Action |-> action, Enabled |-> TRUE]

Recurring(section, dow, time, action) ==
    [section |-> section, TYPE |-> "recurring", DATE |-> NoDate,
     DAY_OF_WEEK |-> dow, TIME |-> time, Action |-> action, Enabled |-> TRUE]

\* The configurations the model starts from: no schedule, a one-time window
\* 23:58-23:59 on day 0, a recurring start without a stop, and a recurring
\* start with a recurring stop.
ScheduleConfigs ==
    { <<>>,
      << OneTime("SCHEDULE_1", DateOf(StartTime), HM(23, 58), "start"),
         OneTime("SCHEDULE_2", DateOf(StartTime), HM(23, 59), "stop") >>,
      << Recurring("SCHEDULE_1", "everyday", HM(23, 58), "start") >>,
      << Recurring("SCHEDULE_1", "everyday", HM(23, 58), "start"),
         Recurring("SCHEDULE_2", "everyday", HM(23, 59), "stop") >> }

MinOf(S) == CHOOSE x \in S : \A y \in S : x <= y

\* _find_corresponding_stop_schedule: TIME of the first stop record that
\* matches, NoTime (None) when there is none.
FindCorrespondingStopSchedule(scheds, start, date) ==
    LET hits == { i \in 1..Len(scheds) :
                    /\ scheds[i].Action = "stop"
                    /\ IF date # NoDate
                       THEN scheds[i].DATE = date
                       ELSE /\ scheds[i].TYPE = scheds[start].TYPE
                            /\ scheds[i].DAY_OF_WEEK = scheds[start].DAY_OF_WEEK }
    IN  IF hits = {} THEN NoTime ELSE scheds[MinOf(hits)].TIME

\* The window match looks at enabled records only.
WindowEndEnabledOnly(scheds, i, t) ==
    LET p == scheds[i]
        hm == TimeOf(t)
    IN  IF p.Action # "start" \/ ~p.Enabled THEN NoTime
        ELSE IF p.TYPE = "one-time"
        THEN IF p.DATE = DateOf(t) /\ StrLeq(p.TIME, hm)
             THEN LET stop == FindCorrespondingStopSchedule(scheds, i, p.DATE)
                  IN  IF stop # NoTime /\ StrLess(hm, stop) THEN stop ELSE NoTime
             ELSE NoTime
        ELSE IF p.TYPE = "recurring"
        THEN IF (p.DAY_OF_WEEK = "everyday" \/ p.DAY_OF_WEEK = DayNameOf(t))
                /\ StrLeq(p.TIME, hm)
             THEN LET stop == FindCorrespondingStopSchedule(scheds, i, NoDate)
                      end  == IF stop # NoTime /\ StrLess(hm, stop)
                              THEN stop ELSE EndOfDay
                  IN  IF StrLess(hm, end) THEN end ELSE NoTime
             ELSE NoTime
        ELSE NoTime

\* The result one start record gives in _should_simulation_be_active_now:
\* its end time when the record is in window at time t, NoTime otherwise.
WindowEnd(scheds, i, t) ==
    LET p == scheds[i]
        hm == TimeOf(t)
    IN  IF p.Action # "start" THEN NoTime
        ELSE IF p.TYPE = "one-time"
        THEN IF p.DATE = DateOf(t) /\ StrLeq(p.TIME, hm)
             THEN LET stop == FindCorrespondingStopSchedule(scheds, i, p.DATE)
                  IN  IF stop # NoTime /\ StrLess(hm, stop) THEN stop ELSE NoTime
             ELSE NoTime
        ELSE IF p.TYPE = "recurring"
        THEN IF (p.DAY_OF_WEEK = "everyday" \/ p.DAY_OF_WEEK = DayNameOf(t))
                /\ StrLeq(p.TIME, hm)
             THEN LET stop == FindCorrespondingStopSchedule(scheds, i, NoDate)
                      end  == IF stop # NoTime /\ StrLess(hm, stop)
                              THEN stop ELSE EndOfDay
                  IN  IF StrLess(hm, end) THEN end ELSE NoTime
             ELSE NoTime
        ELSE NoTime

NotActive == [active |-> FALSE, schedule |-> "none", end_time |-> NoTime]

\* _should_simulation_be_active_now: the first start record in window.
ShouldSimulationBeActiveNow(scheds, t) ==
    LET hits == { i \in 1..Len(scheds) : WindowEnd(scheds, i, t) # NoTime }
    IN  IF hits = {} THEN NotActive
        ELSE [active |-> TRUE, schedule |-> scheds[MinOf(hits)].section,
              end_time |-> WindowEnd(scheds, MinOf(hits), t)]

\* The exact-match test of _check_schedules for one record.
ExactMatch(p, t) ==
    /\ p.Enabled
    /\ \/ p.TYPE = "one-time" /\ p.DATE = DateOf(t) /\ p.TIME = TimeOf(t)
       \/ /\ p.TYPE = "recurring" /\ p.TIME = TimeOf(t)
          /\ (p.DAY_OF_WEEK = "everyday" \/ p.DAY_OF_WEEK = DayNameOf(t))

\* Index of the record _check_schedules executes, 0 when none matches.
FirstMatch(scheds, t) ==
    LET hits == { i \in 1..Len(scheds) : ExactMatch(scheds[i], t) }
    IN  IF hits = {} THEN 0 ELSE MinOf(hits)

(***************************************************************************)
(* Wake hosts of the configuration: WAKE_HOST_1 ignores simulation and has *)
(* a BROADCAST_IP of its own, WAKE_HOST_2 does not ignore simulation,      *)
(* WAKE_HOST_3 has AUTO_WOL=false, WAKE_HOST_4 has no MAC.                 *)
(***************************************************************************)
WakeHosts == {"WAKE_HOST_1", "WAKE_HOST_2", "WAKE_HOST_3", "WAKE_HOST_4"}
AutoWol(h) == h # "WAKE_HOST_3"
IgnoreSimulation(h) == h # "WAKE_HOST_2"
HasIpAndMac(h) == h # "WAKE_HOST_4"
\* params.get('BROADCAST_IP', default_broadcast)
BroadcastOf(h) == IF h = "WAKE_HOST_1" THEN "BROADCAST_IP" ELSE "DEFAULT_BROADCAST_IP"
\* The records that carry SHUTDOWN_DELAY_MINUTES: the monitored UPS clients.
Monitored(h) == h \notin {"WAKE_HOST_2", "WAKE_HOST_4"}

\* What happens for one host in the wake sequence: it answers the ping, the
\* ping raises, wakeonlan returns 0, returns non-zero, or raises.
WolOutcomes == {"online", "ping_error", "wol_sent", "wol_failed", "wol_timeout"}
QuietOutcome == [h \in WakeHosts |-> "online"]
\* The outcomes drawn for a wake sequence: every outcome for WAKE_HOST_1,
\* an answered ping or a packet sent for the other hosts.
WolInputs == { o \in [WakeHosts -> WolOutcomes] :
                 \A h \in WakeHosts \ {"WAKE_HOST_1"} :
                     o[h] \in {"online", "wol_sent"} }

\* One sentinel ping: return code 0, non-zero, or TimeoutExpired/OSError.
PingOutcomes == {"up", "down", "error"}

(***************************************************************************)
(* The client status store (CLIENT_STATUS_FILE), keyed by the IP of the    *)
(* wake host record, and the client notification flags                     *)
(* (CLIENT_NOTIFICATION_STATE_FILE).                                       *)
(***************************************************************************)
NoEntry == [status |-> "absent", timestamp |-> 0]

\* The store as __main__ creates it: no entry for any IP.
EmptyClientStatus == [h \in WakeHosts |-> NoEntry]

\* statuses[ip] = {"status": status, "timestamp": utcnow, ...}
Entry(status, t) == [status |-> status, timestamp |-> t]

ShutdownFlag(h) == <<"SHUTDOWN_NOTIFIED", h>>
StaleFlag(h) == <<"STALE_NOTIFIED", h>>

(***************************************************************************)
(* The persisted power state record (STATE_FILE)                           *)
(***************************************************************************)
ScheduleSections == {"SCHEDULE_1", "SCHEDULE_2", "SCHEDULE_3"}

NullInfo == [schedule |-> "null", end_time |-> NoTime, interrupted_at |-> <<>>]

\* The file as _clear_file leaves it: no key at all.
EmptyStateFile ==
    [STATE |-> "None", TIMESTAMP |-> 0, SIMULATION |-> FALSE,
     SIM_INTERRUPTED |-> FALSE, INTERRUPTED_SCHEDULE |-> NullInfo]

\* PowerManager.__init__ followed by _load_state, with the files and the
\* effects of the cycle carried along.
NewPowerManager(cfgSim, scheds, sfile, ufile, cfile, nfile, stale) ==
    [config_sim |-> cfgSim, file_sim |-> cfgSim, schedules |-> scheds,
     stale_minutes |-> stale,
     client_status |-> cfile, client_notification_states |-> nfile,
     client_notes |-> <<>>,
     power_state |-> sfile.STATE,
     power_state_timestamp |-> sfile.TIMESTAMP,
     power_state_was_simulation |-> sfile.SIMULATION,
     simulation_interrupted |-> sfile.SIM_INTERRUPTED,
     interrupted_schedule_info |-> sfile.INTERRUPTED_SCHEDULE,
     state_file |-> sfile, ups_file |-> ufile,
     sim_read |-> FALSE, sim_info |-> NotActive, status |-> "none",
     branch |-> "none", notes |-> <<>>, ups_writes |-> <<>>,
     wol_ran |-> FALSE, wol_cmd |-> {}, wol_via |-> {}, woken |-> {},
     body |-> <<>>]

\* Notifier.send is called with the message of the given call site.
Send(pm, note) == [pm EXCEPT !.notes = Append(@, note)]

\* Notifier.send with the numbers that the call site formats into the body.
SendBody(pm, note, args) == [Send(pm, note) EXCEPT !.body = args]

\* duration of the POWER_FAIL branch of _handle_power_online, in minutes.
Duration(pm, t) ==
    IF pm.power_state_timestamp # 0
    THEN (t - pm.power_state_timestamp) \div SecondsPerMinute
    ELSE 0

\* _save_power_state
SavePowerState(pm, state, t) ==
    [pm EXCEPT !.state_file =
        [STATE |-> state, TIMESTAMP |-> t, SIMULATION |-> pm.config_sim,
         SIM_INTERRUPTED |-> pm.simulation_interrupted,
         INTERRUPTED_SCHEDULE |-> pm.interrupted_schedule_info]]

\* _clear_file(STATE_FILE)
ClearStateFile(pm) == [pm EXCEPT !.state_file = EmptyStateFile]

\* _update_ups_status_file
UpdateUpsStatusFile(pm, line) ==
    [pm EXCEPT !.ups_file = line, !.ups_writes = Append(@, line)]

\* A one-time record stays enabled after it has fired.
CheckSchedulesKeepEnabled(pm, t) ==
    LET i == FirstMatch(pm.schedules, t)
    IN  IF i = 0 THEN pm
        ELSE LET p == pm.schedules[i]
                 a == IF p.Action = "start"
                      THEN Send([pm EXCEPT !.file_sim = TRUE], "SIM_STARTED")
                      ELSE IF p.Action = "stop"
                      THEN Send([pm EXCEPT !.file_sim = FALSE], "SIM_STOPPED_BY_SCHEDULE")
                      ELSE pm
             IN  [a EXCEPT !.config_sim = a.file_sim]

\* _check_schedules
CheckSchedules(pm, t) ==
    LET i == FirstMatch(pm.schedules, t)
    IN  IF i = 0 THEN pm
        ELSE LET p == pm.schedules[i]
                 a == IF p.Action = "start"
                      THEN Send([pm EXCEPT !.file_sim = TRUE], "SIM_STARTED")
                      ELSE IF p.Action = "stop"
                      THEN Send([pm EXCEPT !.file_sim = FALSE], "SIM_STOPPED_BY_SCHEDULE")
                      ELSE pm
                 b == IF p.TYPE = "one-time"
                      THEN [a EXCEPT !.schedules[i].Enabled = FALSE]
                      ELSE a
             IN  [b EXCEPT !.config_sim = b.file_sim]

\* A ping that raises is taken for an answer.
OnlineHostsCountErrorsAnswer(pings) ==
    Cardinality({ k \in 1..Len(pings) : pings[k] # "down" })

\* online_hosts_count after the ping loop of _determine_power_status.
OnlineHostsCount(pings) ==
    Cardinality({ k \in 1..Len(pings) : pings[k] = "up" })

\* An empty sentinel list is handled like a list of which no host answers.
DeterminePowerStatusNoShortcut(pm, pings, t) ==
    LET is_simulation_mode == pm.config_sim
        real_power_offline == OnlineHostsCount(pings) = 0
        sim_info == ShouldSimulationBeActiveNow(pm.schedules, t)
        a == [pm EXCEPT !.sim_read = is_simulation_mode]
        b == IF sim_info.active
             THEN [a EXCEPT !.simulation_interrupted = TRUE,
                            !.interrupted_schedule_info =
                                [schedule |-> sim_info.schedule,
                                 end_time |-> sim_info.end_time,
                                 interrupted_at |-> <<DateOf(t), TimeOf(t)>>]]
             ELSE a
        c == [b EXCEPT !.sim_info = sim_info, !.file_sim = FALSE,
                       !.config_sim = FALSE]
    IN  IF is_simulation_mode /\ real_power_offline
        THEN [c EXCEPT !.status = "OFFLINE"]
        ELSE IF is_simulation_mode \/ real_power_offline
        THEN [a EXCEPT !.status = "OFFLINE"]
        ELSE [a EXCEPT !.status = "ONLINE"]

\* The simulation flag is left out of the status.
DeterminePowerStatusRealOnly(pm, pings, t) ==
    LET is_simulation_mode == pm.config_sim
        real_power_offline == OnlineHostsCount(pings) = 0
        sim_info == ShouldSimulationBeActiveNow(pm.schedules, t)
        a == [pm EXCEPT !.sim_read = is_simulation_mode]
        b == IF sim_info.active
             THEN [a EXCEPT !.simulation_interrupted = TRUE,
                            !.interrupted_schedule_info =
                                [schedule |-> sim_info.schedule,
                                 end_time |-> sim_info.end_time,
                                 interrupted_at |-> <<DateOf(t), TimeOf(t)>>]]
             ELSE a
        c == [b EXCEPT !.sim_info = sim_info, !.file_sim = FALSE,
                       !.config_sim = FALSE]
    IN  IF pings = <<>> THEN [a EXCEPT !.status = "ONLINE"]
        ELSE IF is_simulation_mode /\ real_power_offline
        THEN [c EXCEPT !.status = "OFFLINE"]
        ELSE IF real_power_offline
        THEN [a EXCEPT !.status = "OFFLINE"]
        ELSE [a EXCEPT !.status = "ONLINE"]

\* Simulation mode is switched off only when a window was found.
DeterminePowerStatusOffInWindow(pm, pings, t) ==
    LET is_simulation_mode == pm.config_sim
        real_power_offline == OnlineHostsCount(pings) = 0
        sim_info == ShouldSimulationBeActiveNow(pm.schedules, t)
        a == [pm EXCEPT !.sim_read = is_simulation_mode]
        b == IF sim_info.active
             THEN [a EXCEPT !.simulation_interrupted = TRUE,
                            !.interrupted_schedule_info =
                                [schedule |-> sim_info.schedule,
                                 end_time |-> sim_info.end_time,
                                 interrupted_at |-> <<DateOf(t), TimeOf(t)>>],
                            !.file_sim = FALSE, !.config_sim = FALSE]
             ELSE a
        c == [b EXCEPT !.sim_info = sim_info]
    IN  IF pings = <<>> THEN [a EXCEPT !.status = "ONLINE"]
        ELSE IF is_simulation_mode /\ real_power_offline
        THEN [c EXCEPT !.status = "OFFLINE"]
        ELSE IF is_simulation_mode \/ real_power_offline
        THEN [a EXCEPT !.status = "OFFLINE"]
        ELSE [a EXCEPT !.status = "ONLINE"]

\* _determine_power_status; the result is left in pm.status.
DeterminePowerStatus(pm, pings, t) ==
    LET is_simulation_mode == pm.config_sim
        real_power_offline == OnlineHostsCount(pings) = 0
        sim_info == ShouldSimulationBeActiveNow(pm.schedules, t)
        a == [pm EXCEPT !.sim_read = is_simulation_mode]
        b == IF sim_info.active
             THEN [a EXCEPT !.simulation_interrupted = TRUE,
                            !.interrupted_schedule_info =
                                [schedule |-> sim_info.schedule,
                                 end_time |-> sim_info.end_time,
                                 interrupted_at |-> <<DateOf(t), TimeOf(t)>>]]
             ELSE a
        c == [b EXCEPT !.sim_info = sim_info, !.file_sim = FALSE,
                       !.config_sim = FALSE]
    IN  IF pings = <<>> THEN [a EXCEPT !.status = "ONLINE"]
        ELSE IF is_simulation_mode /\ real_power_offline
        THEN [c EXCEPT !.status = "OFFLINE"]
        ELSE IF is_simulation_mode \/ real_power_offline
        THEN [a EXCEPT !.status = "OFFLINE"]
        ELSE [a EXCEPT !.status = "ONLINE"]

\* The notification is sent whether or not the state changed.
HandlePowerOfflineRenotify(pm, t) ==
    LET state_changed == pm.power_state # "POWER_FAIL"
        r == IF state_changed
             THEN [pm EXCEPT !.client_notification_states = {}]
             ELSE pm
        a == IF r.config_sim THEN Send(r, "SIM_ACTIVE")
             ELSE Send(r, "POWER_FAIL")
        b == SavePowerState(a, "POWER_FAIL", t)
    IN  UpdateUpsStatusFile([b EXCEPT !.branch = "offline"], "ups.status: OB LB")

\* The client notification flags are kept when the state changes.
HandlePowerOfflineKeepFlags(pm, t) ==
    LET state_changed == pm.power_state # "POWER_FAIL"
        a == IF state_changed
             THEN IF pm.config_sim THEN Send(pm, "SIM_ACTIVE")
                  ELSE Send(pm, "POWER_FAIL")
             ELSE pm
        should_save == state_changed \/ pm.simulation_interrupted
        b == IF should_save THEN SavePowerState(a, "POWER_FAIL", t) ELSE a
    IN  UpdateUpsStatusFile([b EXCEPT !.branch = "offline"], "ups.status: OB LB")

\* _handle_power_offline
HandlePowerOffline(pm, t) ==
    LET state_changed == pm.power_state # "POWER_FAIL"
        r == [pm EXCEPT !.client_notification_states = {}]
        a == IF state_changed
             THEN IF r.config_sim THEN Send(r, "SIM_ACTIVE")
                  ELSE Send(r, "POWER_FAIL")
             ELSE pm
        should_save == state_changed \/ pm.simulation_interrupted
        b == IF should_save THEN SavePowerState(a, "POWER_FAIL", t) ELSE a
    IN  UpdateUpsStatusFile([b EXCEPT !.branch = "offline"], "ups.status: OB LB")

\* The status _initiate_wol records for a host, "none" when it records none.
WolStatus(o) ==
    IF o \in {"wol_sent", "wol_failed"} THEN o
    ELSE IF o \in {"ping_error", "wol_timeout"} THEN "wol_error"
    ELSE "none"

\* _update_client_status_json for every host of the wake sequence.
UpdateClientStatusJson(pm, tried, t, out) ==
    [pm EXCEPT !.client_status =
        [h \in WakeHosts |->
            IF h \in tried /\ WolStatus(out[h]) # "none"
            THEN Entry(WolStatus(out[h]), t)
            ELSE pm.client_status[h]]]

\* The wake sequence without the IGNORE_SIMULATION filter.
InitiateWolEveryHost(pm, t, out) ==
    LET tried == { h \in WakeHosts : AutoWol(h) /\ HasIpAndMac(h) }
        cmd   == { h \in tried : out[h] \in {"wol_sent", "wol_failed", "wol_timeout"} }
        woken == { h \in tried : out[h] = "wol_sent" }
        a     == [pm EXCEPT !.wol_ran = TRUE, !.wol_cmd = cmd, !.woken = woken,
                            !.wol_via = { <<h, BroadcastOf(h)>> : h \in cmd }]
        b     == UpdateClientStatusJson(a, tried, t, out)
    IN  IF woken # {} THEN Send(b, "WOL_INITIATED") ELSE b

\* Every packet goes to the global default broadcast address.
InitiateWolDefaultBroadcast(pm, t, out) ==
    LET is_simulation_active == pm.config_sim
        tried == { h \in WakeHosts :
                     /\ AutoWol(h)
                     /\ is_simulation_active => IgnoreSimulation(h)
                     /\ HasIpAndMac(h) }
        cmd   == { h \in tried : out[h] \in {"wol_sent", "wol_failed", "wol_timeout"} }
        woken == { h \in tried : out[h] = "wol_sent" }
        a     == [pm EXCEPT !.wol_ran = TRUE, !.wol_cmd = cmd, !.woken = woken,
                            !.wol_via = { <<h, "DEFAULT_BROADCAST_IP">> : h \in cmd }]
        b     == UpdateClientStatusJson(a, tried, t, out)
    IN  IF woken # {} THEN Send(b, "WOL_INITIATED") ELSE b

\* _initiate_wol
InitiateWol(pm, t, out) ==
    LET is_simulation_active == pm.config_sim
        tried == { h \in WakeHosts :
                     /\ AutoWol(h)
                     /\ is_simulation_active => IgnoreSimulation(h)
                     /\ HasIpAndMac(h) }
        cmd   == { h \in tried : out[h] \in {"wol_sent", "wol_failed", "wol_timeout"} }
        woken == { h \in tried : out[h] = "wol_sent" }
        a     == [pm EXCEPT !.wol_ran = TRUE, !.wol_cmd = cmd, !.woken = woken,
                            !.wol_via = { <<h, BroadcastOf(h)>> : h \in cmd }]
        b     == UpdateClientStatusJson(a, tried, t, out)
    IN  IF woken # {} THEN Send(b, "WOL_INITIATED") ELSE b

\* The wake sequence is not held back by the delay.
WolDelayIgnored(pm, t, wol_delay) == pm.power_state_timestamp # 0

\* The delay is taken as hours.
WolDelayPassedHours(pm, t, wol_delay) ==
    /\ pm.power_state_timestamp # 0
    /\ t - pm.power_state_timestamp >= wol_delay * SecondsPerMinute * SecondsPerMinute

\* The wake-delay test of the POWER_RESTORED and POWER_RESTORED_SIM branches.
WolDelayPassed(pm, t, wol_delay) ==
    /\ pm.power_state_timestamp # 0
    /\ t - pm.power_state_timestamp >= wol_delay * SecondsPerMinute

\* After a restoration outside the window the interruption flag is kept and
\* only the schedule information is dropped.
HandleRestorationKeepFlag(pm, t, wol_delay) ==
    LET end_time == pm.interrupted_schedule_info.end_time
        a == IF pm.simulation_interrupted
             THEN LET r == IF pm.interrupted_schedule_info # NullInfo
                           THEN IF StrLess(TimeOf(t), end_time)
                                THEN Send([pm EXCEPT !.file_sim = TRUE,
                                                     !.config_sim = TRUE],
                                          "SIM_RESTORED")
                                ELSE SendBody(pm, "POWER_RESTORED_WINDOW_ENDED",
                                              <<Duration(pm, t)>>)
                           ELSE pm
                  IN  IF ~r.config_sim
                      THEN [r EXCEPT !.interrupted_schedule_info = NullInfo]
                      ELSE r
             ELSE IF pm.power_state_was_simulation
             THEN SendBody(pm, "SIM_STOPPED", <<Duration(pm, t)>>)
             ELSE SendBody(pm, "POWER_RESTORED", <<Duration(pm, t), wol_delay>>)
    IN  IF a.config_sim /\ a.simulation_interrupted
        THEN SavePowerState(a, "POWER_RESTORED_SIM", t)
        ELSE SavePowerState(a, "POWER_RESTORED", t)

\* The choice of the message looks at the simulation flag of the
\* configuration, not at the persisted one.
HandleRestorationByConfig(pm, t, wol_delay) ==
    LET end_time == pm.interrupted_schedule_info.end_time
        a == IF pm.simulation_interrupted
             THEN LET r == IF pm.interrupted_schedule_info # NullInfo
                           THEN IF StrLess(TimeOf(t), end_time)
                                THEN Send([pm EXCEPT !.file_sim = TRUE,
                                                     !.config_sim = TRUE],
                                          "SIM_RESTORED")
                                ELSE SendBody(pm, "POWER_RESTORED_WINDOW_ENDED",
                                              <<Duration(pm, t)>>)
                           ELSE pm
                  IN  IF ~r.config_sim
                      THEN [r EXCEPT !.simulation_interrupted = FALSE,
                                     !.interrupted_schedule_info = NullInfo]
                      ELSE r
             ELSE IF pm.config_sim
             THEN SendBody(pm, "SIM_STOPPED", <<Duration(pm, t)>>)
             ELSE SendBody(pm, "POWER_RESTORED", <<Duration(pm, t), wol_delay>>)
    IN  IF a.config_sim /\ a.simulation_interrupted
        THEN SavePowerState(a, "POWER_RESTORED_SIM", t)
        ELSE SavePowerState(a, "POWER_RESTORED", t)

\* The interruption flags are cleared although simulation was restored.
HandleRestorationDropFlags(pm, t, wol_delay) ==
    LET end_time == pm.interrupted_schedule_info.end_time
        a == IF pm.simulation_interrupted
             THEN LET r == IF pm.interrupted_schedule_info # NullInfo
                           THEN IF StrLess(TimeOf(t), end_time)
                                THEN Send([pm EXCEPT !.file_sim = TRUE,
                                                     !.config_sim = TRUE],
                                          "SIM_RESTORED")
                                ELSE SendBody(pm, "POWER_RESTORED_WINDOW_ENDED",
                                              <<Duration(pm, t)>>)
                           ELSE pm
                  IN  [r EXCEPT !.simulation_interrupted = FALSE,
                                !.interrupted_schedule_info = NullInfo]
             ELSE IF pm.power_state_was_simulation
             THEN SendBody(pm, "SIM_STOPPED", <<Duration(pm, t)>>)
             ELSE SendBody(pm, "POWER_RESTORED", <<Duration(pm, t), wol_delay>>)
    IN  IF a.config_sim /\ a.simulation_interrupted
        THEN SavePowerState(a, "POWER_RESTORED_SIM", t)
        ELSE SavePowerState(a, "POWER_RESTORED", t)

\* The POWER_FAIL branch of _handle_power_online.
HandleRestoration(pm, t, wol_delay) ==
    LET end_time == pm.interrupted_schedule_info.end_time
        a == IF pm.simulation_interrupted
             THEN LET r == IF pm.interrupted_schedule_info # NullInfo
                           THEN IF StrLess(TimeOf(t), end_time)
                                THEN Send([pm EXCEPT !.file_sim = TRUE,
                                                     !.config_sim = TRUE],
                                          "SIM_RESTORED")
                                ELSE SendBody(pm, "POWER_RESTORED_WINDOW_ENDED",
                                              <<Duration(pm, t)>>)
                           ELSE pm
                  IN  IF ~r.config_sim
                      THEN [r EXCEPT !.simulation_interrupted = FALSE,
                                     !.interrupted_schedule_info = NullInfo]
                      ELSE r
             ELSE IF pm.power_state_was_simulation
             THEN SendBody(pm, "SIM_STOPPED", <<Duration(pm, t)>>)
             ELSE SendBody(pm, "POWER_RESTORED", <<Duration(pm, t), wol_delay>>)
    IN  IF a.config_sim /\ a.simulation_interrupted
        THEN SavePowerState(a, "POWER_RESTORED_SIM", t)
        ELSE SavePowerState(a, "POWER_RESTORED", t)

\* The state file is left as it is after the wake sequence.
HandleWakeDelayKeepState(pm, t, wol_delay, out) ==
    IF WolDelayPassed(pm, t, wol_delay)
    THEN LET a == InitiateWol(pm, t, out)
         IN  [a EXCEPT !.simulation_interrupted = FALSE,
                       !.interrupted_schedule_info = NullInfo]
    ELSE pm

\* The POWER_RESTORED and POWER_RESTORED_SIM branches of _handle_power_online.
HandleWakeDelay(pm, t, wol_delay, out) ==
    IF WolDelayPassed(pm, t, wol_delay)
    THEN LET a == InitiateWol(pm, t, out)
         IN  ClearStateFile([a EXCEPT !.simulation_interrupted = FALSE,
                                      !.interrupted_schedule_info = NullInfo])
    ELSE pm

\* _handle_power_online
HandlePowerOnline(pm, t, wol_delay, out) ==
    LET a == UpdateUpsStatusFile([pm EXCEPT !.branch = "online"], "ups.status: OL")
    IN  IF a.power_state = "None" THEN a
        ELSE IF a.power_state = "POWER_FAIL" THEN HandleRestoration(a, t, wol_delay)
        ELSE IF a.power_state \in {"POWER_RESTORED", "POWER_RESTORED_SIM"}
        THEN HandleWakeDelay(a, t, wol_delay, out)
        ELSE a

\* The branch is chosen by the computed status alone.
HandleStateByStatus(pm, t, wol_delay, out) ==
    IF pm.status = "OFFLINE" THEN HandlePowerOffline(pm, t)
    ELSE HandlePowerOnline(pm, t, wol_delay, out)

\* The state handling of run(): POWER_RESTORED_SIM is looked at before the
\* computed status.
HandleState(pm, t, wol_delay, out) ==
    IF pm.power_state = "POWER_RESTORED_SIM"
    THEN HandlePowerOnline(pm, t, wol_delay, out)
    ELSE IF pm.status = "OFFLINE" THEN HandlePowerOffline(pm, t)
    ELSE HandlePowerOnline(pm, t, wol_delay, out)

\* Notifier.send for a client event of the given wake host.
SendClient(pm, kind, h) == [pm EXCEPT !.client_notes = Append(@, <<kind, h>>)]

\* The stale flag stays set when the status is fresh again.
CheckOneClientKeepFlag(pm, h, t) ==
    IF ~Monitored(h) \/ pm.client_status[h].status = "absent" THEN pm
    ELSE LET status_data == pm.client_status[h]
             a == IF /\ status_data.status = "shutdown_pending"
                     /\ ShutdownFlag(h) \notin pm.client_notification_states
                  THEN [SendClient(pm, "CLIENT_SHUTDOWN", h)
                          EXCEPT !.client_notification_states =
                                     @ \cup {ShutdownFlag(h)}]
                  ELSE pm
             time_diff == t - status_data.timestamp
         IN  IF /\ time_diff > pm.stale_minutes * SecondsPerMinute
                /\ StaleFlag(h) \notin a.client_notification_states
             THEN [SendClient(a, "CLIENT_STALE", h)
                     EXCEPT !.client_notification_states =
                                @ \cup {StaleFlag(h)}]
             ELSE a

\* The loop body of _check_client_statuses for one wake host record.
CheckOneClient(pm, h, t) ==
    IF ~Monitored(h) \/ pm.client_status[h].status = "absent" THEN pm
    ELSE LET status_data == pm.client_status[h]
             a == IF /\ status_data.status = "shutdown_pending"
                     /\ ShutdownFlag(h) \notin pm.client_notification_states
                  THEN [SendClient(pm, "CLIENT_SHUTDOWN", h)
                          EXCEPT !.client_notification_states =
                                     @ \cup {ShutdownFlag(h)}]
                  ELSE pm
             time_diff == t - status_data.timestamp
         IN  IF time_diff > pm.stale_minutes * SecondsPerMinute
             THEN IF StaleFlag(h) \notin a.client_notification_states
                  THEN [SendClient(a, "CLIENT_STALE", h)
                          EXCEPT !.client_notification_states =
                                     @ \cup {StaleFlag(h)}]
                  ELSE a
             ELSE [a EXCEPT !.client_notification_states =
                                @ \ {StaleFlag(h)}]

\* _check_client_statuses: the wake host records in file order.
CheckClientStatuses(pm, t) ==
    CheckOneClient(
        CheckOneClient(
            CheckOneClient(pm, "WAKE_HOST_1", t), "WAKE_HOST_2", t),
        "WAKE_HOST_3", t)

\* Schedules are checked in every sub-poll.
ScheduleCheckAlways(iter) == iter \in 0..(CHECK_ITERATIONS - 1)

\* run(): "if iteration == 0: self._check_schedules()"
ScheduleCheckDue(iter) == iter = 0

\* PowerManager().run(iteration): the object after the cycle; its
\* client_notification_states are what run() writes to the flag file.
Run(cfgSim, scheds, sfile, ufile, cfile, nfile, stale, iter, t, pings, wol_delay, out) ==
    LET a == NewPowerManager(cfgSim, scheds, sfile, ufile, cfile, nfile, stale)
        b == IF ScheduleCheckDue(iter) THEN CheckSchedules(a, t) ELSE a
        c == DeterminePowerStatus(b, pings, t)
        d == HandleState(c, t, wol_delay, out)
    IN  CheckClientStatuses(d, t)

(***************************************************************************)
(* The config store (CONFIG_FILE): a sequence of lines, each a section     *)
(* header, a key=value setting with the text after the '=' sign, or a      *)
(* comment or blank line.  Values are texts over a small alphabet.         *)
(***************************************************************************)
DQ == "\""
SQ == "'"
Space == " "

Header(name) == [kind |-> "header", name |-> name, key |-> "", raw |-> <<>>]
Setting(key, raw) == [kind |-> "setting", name |-> "", key |-> key, raw |-> raw]
Comment == [kind |-> "comment", name |-> "", key |-> "", raw |-> <<>>]

\* str.strip(chars) for a set of characters.
RECURSIVE LStrip(_, _)
LStrip(s, chars) ==
    IF s # <<>> /\ Head(s) \in chars THEN LStrip(Tail(s), chars) ELSE s

RECURSIVE RStrip(_, _)
RStrip(s, chars) ==
    IF s # <<>> /\ s[Len(s)] \in chars
    THEN RStrip(SubSeq(s, 1, Len(s) - 1), chars)
    ELSE s

StripChars(s, chars) == RStrip(LStrip(s, chars), chars)

\* value.strip().strip('"\'').strip() of read_power_manager_config
LoadValue(raw) ==
    StripChars(StripChars(StripChars(raw, {Space}), {DQ, SQ}), {Space})

\* f'{key}="{value}"' of save_setting_to_config: the text after the '='.
SaveValue(value) == <<DQ>> \o value \o <<DQ>>

ConfKeys == {"POWER_SIMULATION_MODE", "ENABLED"}
NoSection == "None"
SectionNames == {"WAKE_HOST_1", "SCHEDULE_1", "OTHER"}

\* current_section.startswith('WAKE_HOST_') or startswith('SCHEDULE_')
KnownSection(name) == name \in {"WAKE_HOST_1", "SCHEDULE_1"}

\* dict.get(key) of a key the dictionary does not have.
Missing == <<"None">>
NoParams == [k \in ConfKeys |-> Missing]

\* config, wake_hosts and schedules before the first line is read.
EmptyConfig ==
    [config |-> NoParams,
     sections |-> [n \in SectionNames |-> [present |-> FALSE, params |-> NoParams]]]

\* read_power_manager_config from line i on, inside section cur.
RECURSIVE ReadFrom(_, _, _, _)
ReadFrom(lines, i, cur, acc) ==
    IF i > Len(lines) THEN acc
    ELSE LET line == lines[i]
         IN  IF line.kind = "header"
             THEN IF KnownSection(line.name)
                  THEN ReadFrom(lines, i + 1, line.name,
                         [acc EXCEPT !.sections[line.name] =
                                  [present |-> TRUE, params |-> NoParams]])
                  ELSE ReadFrom(lines, i + 1, NoSection, acc)
             ELSE IF line.kind = "setting"
             THEN IF cur # NoSection
                  THEN ReadFrom(lines, i + 1, cur,
                         [acc EXCEPT !.sections[cur].params[line.key] =
                                  LoadValue(line.raw)])
                  ELSE ReadFrom(lines, i + 1, cur,
                         [acc EXCEPT !.config[line.key] = LoadValue(line.raw)])
             ELSE ReadFrom(lines, i + 1, cur, acc)

ReadPowerManagerConfig(lines) == ReadFrom(lines, 1, NoSection, EmptyConfig)

\* The value a full load returns for a key in a scope.
Lookup(loaded, section, key) ==
    IF section = NoSection THEN loaded.config[key]
    ELSE IF loaded.sections[section].present
    THEN loaded.sections[section].params[key]
    ELSE Missing

\* The rewrite loop of save_setting_to_config from line i on.
RECURSIVE SaveFrom(_, _, _, _, _, _, _)
SaveFrom(lines, i, in_correct_section, key_found, key, value, section) ==
    IF i > Len(lines) THEN [lines |-> <<>>, key_found |-> key_found]
    ELSE LET line == lines[i]
         IN  IF line.kind = "header"
             THEN LET rest == SaveFrom(lines, i + 1, line.name = section,
                                       key_found, key, value, section)
                  IN  [rest EXCEPT !.lines = <<line>> \o @]
             ELSE IF in_correct_section /\ line.kind = "setting" /\ line.key = key
             THEN LET rest == SaveFrom(lines, i + 1, in_correct_section,
                                       TRUE, key, value, section)
                  IN  [rest EXCEPT !.lines = <<Setting(key, SaveValue(value))>> \o @]
             ELSE LET rest == SaveFrom(lines, i + 1, in_correct_section,
                                       key_found, key, value, section)
                  IN  [rest EXCEPT !.lines = <<line>> \o @]

\* save_setting_to_config
SaveSettingToConfig(lines, key, value, section) ==
    LET r == SaveFrom(lines, 1, section = NoSection, FALSE, key, value, section)
    IN  IF r.key_found THEN r.lines
        ELSE IF section # NoSection
        THEN r.lines \o <<Comment, Header(section), Setting(key, SaveValue(value))>>
        ELSE r.lines \o <<Setting(key, SaveValue(value))>>

(***************************************************************************)
(* State                                                                   *)
(***************************************************************************)
VARIABLES
    now,         \* wall clock, seconds
    iteration,   \* sub-poll the running invocation executes next
    configSim,   \* POWER_SIMULATION_MODE in the config file
    schedules,   \* schedule records of the config file
    sentinels,   \* number of SENTINEL_HOSTS in the config file
    wolDelay,    \* WOL_DELAY_MINUTES in the config file
    stateFile,   \* the persisted power state record
    upsFile,     \* the line in the UPS status indicator file
    clientStatus,   \* the client status store, per wake host IP
    clientNotified, \* the flags set in the client notification state file
    staleMinutes,   \* CLIENT_STALE_TIMEOUT_MINUTES in the config file
    staleRun,    \* per host, consecutive cycles that found its entry stale
    staleSent,   \* per host, stale notifications sent during that run
    staleSentEp, \* the same, counted from the last fresh power-fail transition
    fired,       \* per schedule section, times _check_schedules has executed it
    cyc,         \* what the last cycle started from, read and did
    wakes,       \* wake sequences run since the state last became POWER_FAIL
    lastAct,     \* the operation that produced this state
    \* the single-instance lock of __main__
    pc,          \* where each invocation is
    lockFd,      \* inode each invocation's lock_fd is open on, 0 for none
    lockPath,    \* inode LOCK_FILE names, 0 when the file does not exist
    flockHolder, \* per inode, the invocation holding its flock, 0 for none
    inodeCount,  \* inodes created so far
    subPolls,    \* cycles each invocation has run
    \* the notifier
    tick,        \* datetime.now() of the notifier, in ticks
    debounceStamp, \* APP_ERROR_LAST_SENT in the debounce file, in seconds
    notifyOn,    \* NOTIFY_<category> of the config, per category
    sendLog,     \* what became of each Notifier.send call
    \* the config store
    confFile,    \* the lines of CONFIG_FILE
    confCall,    \* the last save_setting_to_config call and the file before it
    store,       \* CONFIG_FILE as two of its settings
    store0,      \* the settings before the engine and the GUI touched them
    flock,       \* who holds the exclusive lock on CONFIG_FILE
    engPc,       \* where the engine is in save_setting_to_config
    engCall,     \* the key and value the engine saves
    guiPc,       \* where the GUI is in save_main_config
    guiCopy,     \* what the GUI's read_power_manager_config returned
    guiForm,     \* power_simulation_mode of the submitted form
    statusFile,  \* CLIENT_STATUS_FILE: the IPs it has entries for, and whether
                 \* it is a whole JSON document
    tmpFile,     \* CLIENT_STATUS_FILE + ".tmp"
    wolPc,       \* where the engine is in _update_client_status_json
    wolCopy,     \* the engine's statuses dictionary
    apiPc,       \* where the API is in update_client_status
    apiCopy,     \* the API's statuses dictionary
    apiOrphan,   \* the file the API has open was replaced by a rename
    partialRead, \* some read met a file that was not a whole document
    apiHosts,    \* the wake-host records the API reads from the config file
    apiReq,      \* the last /config request
    apiResp,     \* the HTTP status and body it was answered with
    wakeIds,     \* the numbers n of the sections [WAKE_HOST_n] in the file
    schedIds,    \* the numbers n of the sections [SCHEDULE_n] in the file
    lastAdd      \* the last section the GUI added, and the numbers before it

engineVars == <<now, iteration, configSim, schedules, sentinels, wolDelay,
                stateFile, upsFile, clientStatus, clientNotified,
                staleMinutes, staleRun, staleSent, staleSentEp, fired,
                cyc, wakes, lastAct>>

lockVars == <<pc, lockFd, lockPath, flockHolder, inodeCount, subPolls>>

notifierVars == <<tick, debounceStamp, notifyOn, sendLog>>

configVars == <<confFile, confCall>>

\* What the engine's cycle, the lock and the notifier leave alone.
storeVars == <<store, store0, flock, engPc, engCall, guiPc, guiCopy, guiForm>>

statusVars == <<statusFile, tmpFile, wolPc, wolCopy, apiPc, apiCopy, apiOrphan,
                partialRead>>

apiVars == <<apiHosts, apiReq, apiResp>>

idVars == <<wakeIds, schedIds, lastAdd>>

laterVars == <<storeVars, statusVars, apiVars, idVars>>

sideVars == <<configVars, laterVars>>

vars == <<engineVars, lockVars, notifierVars, sideVars>>

\* The ping results of n sentinels. The engine only counts the hosts that
\* answer, so the results are drawn in one order: the hosts that answer
\* first, then those that do not, then those whose ping raises.
PingRank(x) == IF x = "up" THEN 0 ELSE IF x = "down" THEN 1 ELSE 2

RECURSIVE AllPings(_)
AllPings(n) ==
    IF n = 0 THEN { <<>> }
    ELSE { Append(s, x) : s \in AllPings(n - 1), x \in PingOutcomes }

PingInputs(n) ==
    { s \in AllPings(n) :
        \A k \in 1..(n - 1) : PingRank(s[k]) <= PingRank(s[k + 1]) }

NoCycle ==
    [iteration |-> 0, at |-> 0, pre |-> EmptyStateFile, preSim |-> FALSE,
     preSchedules |-> <<>>, pings |-> <<>>, wol_delay |-> 0,
     preNotified |-> {}, prevUp |-> FALSE, out |-> QuietOutcome,
     pm |-> NewPowerManager(FALSE, <<>>, EmptyStateFile, "none",
                            EmptyClientStatus, {}, 0)]

\* The engine before its first cycle, with the given configuration.
EngineStart(scheds, n, delay) ==
    /\ now = StartTime
    /\ iteration = 0
    /\ configSim = FALSE
    /\ schedules = scheds
    /\ sentinels = n
    /\ wolDelay = delay
    /\ stateFile = EmptyStateFile
    /\ upsFile = "none"
    /\ cyc = NoCycle
    /\ wakes = 0
    /\ fired = [sec \in ScheduleSections |-> 0]
    /\ lastAct = "init"

\* The client files as __main__ creates them, with the given stale timeout.
ClientStart(stale) ==
    /\ clientStatus = EmptyClientStatus
    /\ clientNotified = {}
    /\ staleMinutes = stale
    /\ staleRun = [h \in WakeHosts |-> 0]
    /\ staleSent = [h \in WakeHosts |-> 0]
    /\ staleSentEp = [h \in WakeHosts |-> 0]

\* The cycle's check found the entry of host h older than the threshold.
FoundStale(pm, h, t) ==
    /\ Monitored(h)
    /\ pm.client_status[h].status # "absent"
    /\ t - pm.client_status[h].timestamp > pm.stale_minutes * SecondsPerMinute

\* Stale notifications the cycle sent for host h.
StaleNotes(pm, h) ==
    Cardinality({ k \in 1..Len(pm.client_notes) :
                    pm.client_notes[k] = <<"CLIENT_STALE", h>> })

\* The cycle took the state from something else to POWER_FAIL.
FreshPowerFail(pm) == pm.branch = "offline" /\ pm.power_state # "POWER_FAIL"

AtMostTwo(n) == IF n > 2 THEN 2 ELSE n

\* One sub-poll of an invocation: PowerManager().run(iteration), then the
\* sleep to the next sub-poll or the wait for the scheduler's next start.
CycleUntil(end) ==
    /\ now <= end
    /\ \E pings \in PingInputs(sentinels) :
         LET quiet == Run(configSim, schedules, stateFile, upsFile,
                          clientStatus, clientNotified, staleMinutes,
                          iteration, now, pings, wolDelay, QuietOutcome)
         IN  \E out \in (IF quiet.wol_ran THEN WolInputs ELSE {QuietOutcome}) :
             \E pm \in { Run(configSim, schedules, stateFile, upsFile,
                             clientStatus, clientNotified, staleMinutes,
                             iteration, now, pings, wolDelay, out) } :
                   /\ configSim' = pm.file_sim
                   /\ schedules' = pm.schedules
                   /\ stateFile' = pm.state_file
                   /\ upsFile' = pm.ups_file
                   /\ clientStatus' = pm.client_status
                   /\ clientNotified' = pm.client_notification_states
                   /\ staleRun' = [h \in WakeHosts |->
                        IF FoundStale(pm, h, now)
                        THEN AtMostTwo(staleRun[h] + 1) ELSE 0]
                   /\ staleSent' = [h \in WakeHosts |->
                        IF FoundStale(pm, h, now)
                        THEN AtMostTwo((IF staleRun[h] = 0 THEN 0
                                        ELSE staleSent[h]) + StaleNotes(pm, h))
                        ELSE 0]
                   /\ staleSentEp' = [h \in WakeHosts |->
                        IF FoundStale(pm, h, now)
                        THEN AtMostTwo((IF staleRun[h] = 0 \/ FreshPowerFail(pm)
                                        THEN 0
                                        ELSE staleSentEp[h]) + StaleNotes(pm, h))
                        ELSE 0]
                   /\ fired' =
                        LET i == IF ScheduleCheckDue(iteration)
                                 THEN FirstMatch(schedules, now) ELSE 0
                        IN  IF i = 0 THEN fired
                            ELSE [fired EXCEPT ![schedules[i].section] =
                                                   AtMostTwo(@ + 1)]
                   /\ cyc' = [iteration |-> iteration, at |-> now,
                              pre |-> stateFile, preSim |-> configSim,
                              preSchedules |-> schedules,
                              preNotified |-> clientNotified,
                              pings |-> pings, wol_delay |-> wolDelay,
                              prevUp |-> \E k \in 1..Len(cyc.pings) :
                                             cyc.pings[k] = "up",
                              out |-> out, pm |-> pm]
                   /\ wakes' = IF /\ stateFile.STATE # "POWER_FAIL"
                                  /\ pm.state_file.STATE = "POWER_FAIL"
                               THEN 0
                               ELSE IF pm.wol_ran THEN wakes + 1 ELSE wakes
    /\ IF iteration < CHECK_ITERATIONS - 1
       THEN /\ iteration' = iteration + 1
            /\ now' = now + CHECK_INTERVAL_SECONDS
       ELSE /\ iteration' = 0
            /\ now' = now + CHECK_INTERVAL_SECONDS
    /\ lastAct' = "cycle"
    /\ UNCHANGED <<sentinels, wolDelay, staleMinutes, lockVars, notifierVars, sideVars>>

\* One sub-poll of __main__ within the bounded run.
Cycle == CycleUntil(EndOfTime)

\* save_main_config of the web GUI: the operator switches simulation mode.
\* A second switch before the next cycle would undo the first, so one switch
\* between two cycles is all the engine can observe.
GuiSaveMainConfig ==
    /\ now <= EndOfTime
    /\ lastAct # "gui"
    /\ configSim' = ~configSim
    /\ lastAct' = "gui"
    /\ UNCHANGED <<now, iteration, schedules, sentinels, wolDelay,
                   stateFile, upsFile, clientStatus, clientNotified,
                   staleMinutes, staleRun, staleSent, staleSentEp, fired,
                   cyc, wakes, lockVars, notifierVars, sideVars>>

\* save_main_config of the web GUI with SENTINEL_HOSTS of the form taken into
\* account: the operator saves a simulation mode and a sentinel list of which
\* at least one differs from the file.
GuiSaveMainConfigHosts ==
    /\ now <= EndOfTime
    /\ lastAct # "gui"
    /\ \E sim \in BOOLEAN, n \in 0..MaxSentinels :
         /\ <<sim, n>> # <<configSim, sentinels>>
         /\ configSim' = sim
         /\ sentinels' = n
    /\ lastAct' = "gui"
    /\ UNCHANGED <<now, iteration, schedules, wolDelay,
                   stateFile, upsFile, clientStatus, clientNotified,
                   staleMinutes, staleRun, staleSent, staleSentEp, fired,
                   cyc, wakes, lockVars, notifierVars, sideVars>>

\* update_client_status of the API: a client posts its status, and the entry
\* of its IP is replaced with the status and the current UTC time.
ApiReportStatuses == {"online", "shutdown_pending"}

UpdateClientStatus(h, status) ==
    /\ now <= EndOfTime
    /\ lastAct # "api"
    /\ clientStatus' = [clientStatus EXCEPT ![h] = Entry(status, now)]
    /\ lastAct' = "api"
    /\ UNCHANGED <<now, iteration, configSim, schedules, sentinels, wolDelay,
                   stateFile, upsFile, clientNotified,
                   staleMinutes, staleRun, staleSent, staleSentEp, fired,
                   cyc, wakes, lockVars, notifierVars, sideVars>>

ApiReport ==
    \E status \in ApiReportStatuses : UpdateClientStatus("WAKE_HOST_1", status)

(***************************************************************************)
(* The single-instance lock of __main__: open(LOCK_FILE, 'w'), flock with  *)
(* LOCK_NB, the sub-polls, then flock(LOCK_UN), close and os.remove.       *)
(***************************************************************************)
Invocations == 1..MaxInvocations

LockStart ==
    /\ pc = [p \in Invocations |-> "start"]
    /\ lockFd = [p \in Invocations |-> 0]
    /\ lockPath = 0
    /\ flockHolder = [i \in Invocations |-> 0]
    /\ inodeCount = 0
    /\ subPolls = [p \in Invocations |-> 0]

\* lock_fd = open(LOCK_FILE, 'w'): opens the inode the path names, creating
\* one when the path does not exist.
OpenLockFile(p) ==
    /\ pc[p] = "start"
    /\ IF lockPath = 0
       THEN /\ inodeCount' = inodeCount + 1
            /\ lockPath' = inodeCount + 1
       ELSE UNCHANGED <<inodeCount, lockPath>>
    /\ lockFd' = [lockFd EXCEPT ![p] = lockPath']
    /\ pc' = [pc EXCEPT ![p] = "opened"]
    /\ UNCHANGED <<flockHolder, subPolls, engineVars, notifierVars, sideVars>>

\* fcntl.flock(lock_fd, LOCK_EX | LOCK_NB) succeeds.
AcquireLock(p) ==
    /\ pc[p] = "opened"
    /\ flockHolder[lockFd[p]] = 0
    /\ flockHolder' = [flockHolder EXCEPT ![lockFd[p]] = p]
    /\ pc' = [pc EXCEPT ![p] = "running"]
    /\ UNCHANGED <<lockFd, lockPath, inodeCount, subPolls, engineVars, notifierVars, sideVars>>

\* flock raises: another invocation holds the lock; close and sys.exit(0).
ExitSilently(p) ==
    /\ pc[p] = "opened"
    /\ flockHolder[lockFd[p]] # 0
    /\ lockFd' = [lockFd EXCEPT ![p] = 0]
    /\ pc' = [pc EXCEPT ![p] = "skipped"]
    /\ UNCHANGED <<lockPath, flockHolder, inodeCount, subPolls, engineVars, notifierVars, sideVars>>

\* finally: fcntl.flock(lock_fd, LOCK_UN); lock_fd.close(), after the loop or
\* with SystemExit or an exception on its way out of it.
ReleaseLock(p) ==
    /\ \/ pc[p] = "running" /\ subPolls[p] = CHECK_ITERATIONS
       \/ pc[p] \in {"sys_exit", "raised"}
    /\ flockHolder' = [flockHolder EXCEPT ![lockFd[p]] = 0]
    /\ lockFd' = [lockFd EXCEPT ![p] = 0]
    /\ pc' = [pc EXCEPT ![p] = "released"]
    /\ UNCHANGED <<lockPath, inodeCount, subPolls, engineVars, notifierVars, sideVars>>

\* finally: os.remove(LOCK_FILE), OSError ignored: whatever inode the path
\* names now is unlinked.
RemoveLockFile(p) ==
    /\ pc[p] = "released"
    /\ lockPath' = 0
    /\ pc' = [pc EXCEPT ![p] = "exited"]
    /\ UNCHANGED <<lockFd, flockHolder, inodeCount, subPolls, engineVars, notifierVars, sideVars>>

(***************************************************************************)
(* The notifier: Notifier.send with the APP_ERROR debounce                 *)
(***************************************************************************)
NoStamp == 0 - 1        \* no APP_ERROR_LAST_SENT line in the debounce file

Categories == {"APP_ERROR", "POWER_FAIL"}

NotifierStart ==
    /\ tick = StartTime * TicksPerSecond
    /\ debounceStamp = NoStamp
    /\ notifyOn \in [Categories -> BOOLEAN]
    /\ sendLog = <<>>

\* int(datetime.now().timestamp())
WholeSeconds(tk) == tk \div TicksPerSecond

\* last_sent and (datetime.now() - last_sent).total_seconds() < debounce_seconds
Debounced(stamp, tk) ==
    /\ stamp # NoStamp
    /\ tk - stamp * TicksPerSecond < DEBOUNCE_SECONDS * TicksPerSecond

Logged(n, category, tk, outcome) ==
    [n EXCEPT !.log = Append(@, [at |-> tk, category |-> category,
                                 outcome |-> outcome])]

\* A failed APP_ERROR delivery is reported with a further APP_ERROR send.
SendAppErrorResend(n, on, tk, ok) ==
    IF ~on["APP_ERROR"] THEN Logged(n, "APP_ERROR", tk, "disabled")
    ELSE IF Debounced(n.stamp, tk) THEN Logged(n, "APP_ERROR", tk, "debounced")
    ELSE IF ok
    THEN Logged([n EXCEPT !.stamp = WholeSeconds(tk)], "APP_ERROR", tk, "delivered")
    ELSE Logged(Logged([n EXCEPT !.stamp = WholeSeconds(tk)], "APP_ERROR", tk,
                       "failed"),
                "APP_ERROR", tk, "failed")

\* Notifier.send("APP_ERROR", ...): n is the debounce stamp and the log,
\* ok tells whether _send_email returns or raises.
SendAppError(n, on, tk, ok) ==
    IF ~on["APP_ERROR"] THEN Logged(n, "APP_ERROR", tk, "disabled")
    ELSE IF Debounced(n.stamp, tk) THEN Logged(n, "APP_ERROR", tk, "debounced")
    ELSE Logged([n EXCEPT !.stamp = WholeSeconds(tk)], "APP_ERROR", tk,
                IF ok THEN "delivered" ELSE "failed")

\* Notifier.send(category, ...) for another category: a failed delivery is
\* reported with send("APP_ERROR", ...).
SendOther(n, on, category, tk, ok, okReport) ==
    IF ~on[category] THEN Logged(n, category, tk, "disabled")
    ELSE IF ok THEN Logged(n, category, tk, "delivered")
    ELSE SendAppError(Logged(n, category, tk, "failed"), on, tk, okReport)

\* Times between two calls: the next tick, and a debounce period give or
\* take a tick.
SendGaps ==
    {1, DEBOUNCE_SECONDS * TicksPerSecond - 1, DEBOUNCE_SECONDS * TicksPerSecond}

\* run() reports an unhandled exception: send("APP_ERROR", ...).
ReportAppError ==
    /\ Len(sendLog) < MaxSends
    /\ \E gap \in SendGaps, ok \in BOOLEAN :
         LET n == SendAppError([stamp |-> debounceStamp, log |-> sendLog],
                               notifyOn, tick + gap, ok)
         IN  /\ tick' = tick + gap
             /\ debounceStamp' = n.stamp
             /\ sendLog' = n.log
    /\ UNCHANGED <<notifyOn, engineVars, lockVars, sideVars>>

\* The engine sends a notification of another category.
NotifyOther ==
    /\ Len(sendLog) < MaxSends
    /\ \E gap \in SendGaps, ok \in BOOLEAN, okReport \in BOOLEAN :
         LET n == SendOther([stamp |-> debounceStamp, log |-> sendLog],
                            notifyOn, "POWER_FAIL", tick + gap, ok, okReport)
         IN  /\ tick' = tick + gap
             /\ debounceStamp' = n.stamp
             /\ sendLog' = n.log
    /\ UNCHANGED <<notifyOn, engineVars, lockVars, sideVars>>

NextNotifier == ReportAppError \/ NotifyOther

\* What one sub-poll meets: the constructor cannot read the configuration
\* file, the cycle completes, or something inside the cycle raises.
SubPollOutcomes == {"no_config", "completes", "exception"}

\* What the APP_ERROR report of run()'s handler does: notifier.send returns
\* after a delivery, returns after a failed delivery, or raises.
ReportOutcomes == {"delivered", "failed", "raises"}

\* run() lets a failure of its APP_ERROR report out to the caller.
RunReportUnguarded(n, on, tk, cycle, report) ==
    IF cycle = "completes" THEN [n |-> n, raised |-> FALSE]
    ELSE IF report = "raises"
    THEN [n |-> Logged(n, "APP_ERROR", tk, "raised"), raised |-> TRUE]
    ELSE [n |-> SendAppError(n, on, tk, report = "delivered"), raised |-> FALSE]

\* The exception handling of PowerManager.run: try: the cycle; except Exception: log and
\* try: notifier.send("APP_ERROR", ...) except: pass; finally: log.
\* n is the notifier's state before, the result is its state after and
\* whether run() raises to its caller.
RunContained(n, on, tk, cycle, report) ==
    IF cycle = "completes" THEN [n |-> n, raised |-> FALSE]
    ELSE IF report = "raises"
    THEN [n |-> Logged(n, "APP_ERROR", tk, "raised"), raised |-> FALSE]
    ELSE [n |-> SendAppError(n, on, tk, report = "delivered"), raised |-> FALSE]

\* One PowerManager().run(iteration) of the invocation's loop. The
\* constructor's sys.exit(1) and anything run() raises leave the loop for
\* the finally clause of __main__.
SubPoll(p) ==
    /\ pc[p] = "running"
    /\ subPolls[p] < CHECK_ITERATIONS
    /\ \E cycle \in SubPollOutcomes, report \in ReportOutcomes :
         /\ cycle = "exception" => Len(sendLog) < MaxSends
         /\ cycle # "exception" => report = "delivered"
         /\ IF cycle = "no_config"
            THEN /\ pc' = [pc EXCEPT ![p] = "sys_exit"]
                 /\ UNCHANGED <<subPolls, debounceStamp, sendLog>>
            ELSE LET r == RunContained([stamp |-> debounceStamp, log |-> sendLog],
                              notifyOn, tick, cycle, report)
                 IN  /\ debounceStamp' = r.n.stamp
                     /\ sendLog' = r.n.log
                     /\ IF r.raised
                        THEN /\ pc' = [pc EXCEPT ![p] = "raised"]
                             /\ UNCHANGED subPolls
                        ELSE /\ subPolls' = [subPolls EXCEPT ![p] = @ + 1]
                             /\ UNCHANGED pc
    /\ UNCHANGED <<lockFd, lockPath, flockHolder, inodeCount, tick, notifyOn, engineVars, sideVars>>

NextLock ==
    \E p \in Invocations :
        \/ OpenLockFile(p)
        \/ AcquireLock(p)
        \/ ExitSilently(p)
        \/ SubPoll(p)
        \/ ReleaseLock(p)
        \/ RemoveLockFile(p)

(***************************************************************************)
(* The config store: one save_setting_to_config call on a file.            *)
(***************************************************************************)
RECURSIVE SeqsUpTo(_, _)
SeqsUpTo(S, n) ==
    IF n = 0 THEN { <<>> }
    ELSE SeqsUpTo(S, n - 1)
           \cup { Append(q, x) : q \in { r \in SeqsUpTo(S, n - 1) : Len(r) = n - 1 },
                                 x \in S }

\* The lines a config file is made of: headers, settings as the GUI writes
\* them (quoted) and as an editor may leave them, comments.
ConfigLines ==
    { Header(n) : n \in SectionNames }
      \cup { Setting(k, raw) : k \in ConfKeys, raw \in { <<DQ, "a", DQ>>, <<"b", Space>> } }
      \cup { Comment }

ConfigFiles == SeqsUpTo(ConfigLines, MaxLines)

\* The values saved: texts without a quote character.
SavedValues == SeqsUpTo({"a", Space}, MaxValueLen)

SaveScopes == {NoSection} \cup { n \in SectionNames : KnownSection(n) }

NoCall == [key |-> "", value |-> <<>>, section |-> "", before |-> <<>>, done |-> FALSE]

ConfigIdle == confFile = <<>> /\ confCall = NoCall

ConfigStart == confFile \in ConfigFiles /\ confCall = NoCall

\* The engine saves one setting.
SaveSetting ==
    /\ ~confCall.done
    /\ \E key \in ConfKeys, value \in SavedValues, section \in SaveScopes :
         /\ confFile' = SaveSettingToConfig(confFile, key, value, section)
         /\ confCall' = [key |-> key, value |-> value, section |-> section,
                         before |-> confFile, done |-> TRUE]
    /\ UNCHANGED <<engineVars, lockVars, notifierVars, laterVars>>

NextConfig == SaveSetting

(***************************************************************************)
(* The config file shared by the engine and the web GUI                    *)
(***************************************************************************)
\* The two settings the engine updates: POWER_SIMULATION_MODE of the main
\* part and ENABLED of a schedule section.
StoreKeys == {"POWER_SIMULATION_MODE", "ENABLED"}

StoreValues == {"true", "false"}

Stores == [StoreKeys -> StoreValues]

NoStore == [k \in StoreKeys |-> "false"]

NoSave == [key |-> "ENABLED", value |-> "false"]

StoreIdle ==
    /\ store = NoStore /\ store0 = NoStore /\ flock = "none"
    /\ engPc = "idle" /\ engCall = NoSave
    /\ guiPc = "idle" /\ guiCopy = NoStore /\ guiForm = FALSE

StoreStart ==
    /\ store \in Stores /\ store0 = store /\ flock = "none"
    /\ engPc = "idle" /\ engCall \in [key : StoreKeys, value : StoreValues]
    /\ guiPc = "idle" /\ guiCopy = NoStore /\ guiForm \in BOOLEAN

\* save_setting_to_config on a file that has the key: the line is rewritten.
EngineUpdate(st, call) == [st EXCEPT ![call.key] = call.value]

\* save_main_config: the main keys come from the form, the sections from
\* what was read.
GuiUpdate(copy, form) ==
    [copy EXCEPT !["POWER_SIMULATION_MODE"] = IF form THEN "true" ELSE "false"]

\* save_setting_to_config: open(CONFIG_FILE, 'r+') and flock(LOCK_EX).
EngineLock ==
    /\ engPc = "idle"
    /\ flock = "none"
    /\ flock' = "engine"
    /\ engPc' = "locked"
    /\ UNCHANGED <<store, store0, engCall, guiPc, guiCopy, guiForm>>
    /\ UNCHANGED <<engineVars, lockVars, notifierVars, configVars, statusVars,
                   apiVars, idVars>>

\* save_setting_to_config: readlines, seek(0), the lines written back with
\* the key's line replaced, truncate.
EngineRewrite ==
    /\ engPc = "locked"
    /\ store' = EngineUpdate(store, engCall)
    /\ engPc' = "written"
    /\ UNCHANGED <<store0, flock, engCall, guiPc, guiCopy, guiForm>>
    /\ UNCHANGED <<engineVars, lockVars, notifierVars, configVars, statusVars,
                   apiVars, idVars>>

\* save_setting_to_config: the with block ends, the file is closed and the
\* lock goes with it.
EngineUnlock ==
    /\ engPc = "written"
    /\ flock' = "none"
    /\ engPc' = "done"
    /\ UNCHANGED <<store, store0, engCall, guiPc, guiCopy, guiForm>>
    /\ UNCHANGED <<engineVars, lockVars, notifierVars, configVars, statusVars,
                   apiVars, idVars>>

\* save_main_config: read_power_manager_config(); the file is opened and
\* read without asking for the lock.
GuiRead ==
    /\ guiPc = "idle"
    /\ guiCopy' = store
    /\ guiPc' = "read"
    /\ UNCHANGED <<store, store0, flock, engPc, engCall, guiForm>>
    /\ UNCHANGED <<engineVars, lockVars, notifierVars, configVars, statusVars,
                   apiVars, idVars>>

\* save_main_config: write_power_manager_config(); the file is rewritten
\* from the copy without asking for the lock.
GuiWrite ==
    /\ guiPc = "read"
    /\ store' = GuiUpdate(guiCopy, guiForm)
    /\ guiPc' = "done"
    /\ UNCHANGED <<store0, flock, engPc, engCall, guiCopy, guiForm>>
    /\ UNCHANGED <<engineVars, lockVars, notifierVars, configVars, statusVars,
                   apiVars, idVars>>

NextStore == EngineLock \/ EngineRewrite \/ EngineUnlock \/ GuiRead \/ GuiWrite

(***************************************************************************)
(* The client status file shared by the engine and the API                 *)
(***************************************************************************)
WolIp == "ip1"

ApiIp == "ip2"

ClientIps == {WolIp, ApiIp, "ip3"}

WholeFile(ips) == [ips |-> ips, whole |-> TRUE]

\* The file just after open(..., 'w'): empty, not a JSON document.
TruncatedFile == [ips |-> {}, whole |-> FALSE]

StatusIdle ==
    /\ statusFile = WholeFile({}) /\ tmpFile = {}
    /\ wolPc = "idle" /\ wolCopy = {}
    /\ apiPc = "idle" /\ apiCopy = {}
    /\ apiOrphan = FALSE /\ partialRead = FALSE

StatusStart ==
    /\ statusFile \in { WholeFile(ips) : ips \in SUBSET ClientIps }
    /\ tmpFile = {}
    /\ wolPc = "idle" /\ wolCopy = {}
    /\ apiPc = "idle" /\ apiCopy = {}
    /\ apiOrphan = FALSE /\ partialRead = FALSE

\* json.load of the file: a document that is not whole raises
\* JSONDecodeError, and both callers go on with an empty dictionary.
JsonLoad(f) == IF f.whole THEN f.ips ELSE {}

\* _update_client_status_json: statuses = json.load(f)
WolRead ==
    /\ wolPc = "idle"
    /\ wolCopy' = JsonLoad(statusFile)
    /\ partialRead' = (partialRead \/ ~statusFile.whole)
    /\ wolPc' = "read"
    /\ UNCHANGED <<statusFile, tmpFile, apiPc, apiCopy, apiOrphan>>
    /\ UNCHANGED <<engineVars, lockVars, notifierVars, configVars, storeVars,
                   apiVars, idVars>>

\* _update_client_status_json: statuses[ip] = {...}; json.dump to the
\* temporary file.
WolWriteTemp ==
    /\ wolPc = "read"
    /\ tmpFile' = wolCopy \cup {WolIp}
    /\ wolPc' = "temp"
    /\ UNCHANGED <<statusFile, wolCopy, apiPc, apiCopy, apiOrphan, partialRead>>
    /\ UNCHANGED <<engineVars, lockVars, notifierVars, configVars, storeVars,
                   apiVars, idVars>>

\* _update_client_status_json: os.rename(temp_file, CLIENT_STATUS_FILE).
\* A writer that has the old file open goes on writing to the old file.
WolRename ==
    /\ wolPc = "temp"
    /\ statusFile' = WholeFile(tmpFile)
    /\ apiOrphan' = (apiOrphan \/ apiPc = "opened")
    /\ wolPc' = "done"
    /\ UNCHANGED <<tmpFile, wolCopy, apiPc, apiCopy, partialRead>>
    /\ UNCHANGED <<engineVars, lockVars, notifierVars, configVars, storeVars,
                   apiVars, idVars>>

\* update_client_status: statuses = json.load(f)
ApiRead ==
    /\ apiPc = "idle"
    /\ apiCopy' = JsonLoad(statusFile)
    /\ partialRead' = (partialRead \/ ~statusFile.whole)
    /\ apiPc' = "read"
    /\ UNCHANGED <<statusFile, tmpFile, wolPc, wolCopy, apiOrphan>>
    /\ UNCHANGED <<engineVars, lockVars, notifierVars, configVars, storeVars,
                   apiVars, idVars>>

\* update_client_status: statuses[client_ip] = client_status;
\* open(CLIENT_STATUS_FILE, 'w') empties the file.
ApiOpen ==
    /\ apiPc = "read"
    /\ statusFile' = TruncatedFile
    /\ apiPc' = "opened"
    /\ UNCHANGED <<tmpFile, wolPc, wolCopy, apiCopy, apiOrphan, partialRead>>
    /\ UNCHANGED <<engineVars, lockVars, notifierVars, configVars, storeVars,
                   apiVars, idVars>>

\* update_client_status: json.dump(statuses, f) and the end of the with
\* block.
ApiDump ==
    /\ apiPc = "opened"
    /\ statusFile' = IF apiOrphan THEN statusFile
                      ELSE WholeFile(apiCopy \cup {ApiIp})
    /\ apiPc' = "done"
    /\ UNCHANGED <<tmpFile, wolPc, wolCopy, apiCopy, apiOrphan, partialRead>>
    /\ UNCHANGED <<engineVars, lockVars, notifierVars, configVars, storeVars,
                   apiVars, idVars>>

NextStatus ==
    WolRead \/ WolWriteTemp \/ WolRename \/ ApiRead \/ ApiOpen \/ ApiDump

(***************************************************************************)
(* The API's /config endpoint                                              *)
(***************************************************************************)
MaxHosts == 2

RequestIps == {"ip1", "ip2", "ip3"}

\* SHUTDOWN_DELAY_MINUTES of a record: absent, empty, or a number of minutes.
NoDelay == "None"

Delays == {NoDelay, "", "3"}

HostRecords == [IP : {"ip1", "ip2"}, SHUTDOWN_DELAY_MINUTES : Delays]

\* wake_hosts as read_power_manager_config of the API returns it, in file
\* order.
HostConfigs == SeqsUpTo(HostRecords, MaxHosts)

\* A value returned, or an exception on its way up; abort(code) raises an
\* HTTPException, which is an Exception.
Returned(code, delay) ==
    [raised |-> FALSE, code |-> code, SHUTDOWN_DELAY_MINUTES |-> delay]

Abort(code) == [raised |-> TRUE, code |-> code, SHUTDOWN_DELAY_MINUTES |-> NoDelay]

\* for section, params in wake_hosts.items(): if params.get('IP') == client_ip
FirstHost(hosts, ip) ==
    LET hits == { k \in 1..Len(hosts) : hosts[k].IP = ip }
    IN  IF hits = {} THEN 0 ELSE CHOOSE k \in hits : \A j \in hits : k <= j

\* The body of the try block of get_config.
TryBody(hosts, ip, server_ip_set) ==
    LET k == FirstHost(hosts, ip)
    IN  IF k = 0 THEN Abort(404)
        ELSE IF ~server_ip_set THEN Abort(500)
        ELSE LET d == hosts[k].SHUTDOWN_DELAY_MINUTES
             IN  Returned(200, IF d \in {NoDelay, ""} THEN "5" ELSE d)

\* get_config after the token test: "except Exception as e: abort(500, ...)"
\* catches whatever the try block raises.
FindClientConfig(hosts, ip, server_ip_set) ==
    LET r == TryBody(hosts, ip, server_ip_set)
    IN  IF r.raised THEN Abort(500) ELSE r

\* get_config
GetConfig(hosts, token_ok, ip, server_ip_set) ==
    IF ~token_ok THEN Abort(401)
    ELSE FindClientConfig(hosts, ip, server_ip_set)

NoRequest == [done |-> FALSE, token_ok |-> FALSE, ip |-> "ip1", server_ip_set |-> FALSE]

ApiIdle == apiHosts = <<>> /\ apiReq = NoRequest /\ apiResp = Abort(401)

ApiStart == apiHosts \in HostConfigs /\ apiReq = NoRequest /\ apiResp = Abort(401)

\* GET /config
GetConfigRequest ==
    /\ \E token_ok \in BOOLEAN, ip \in RequestIps, server_ip_set \in BOOLEAN :
         /\ apiReq' = [done |-> TRUE, token_ok |-> token_ok, ip |-> ip,
                       server_ip_set |-> server_ip_set]
         /\ apiResp' = GetConfig(apiHosts, token_ok, ip, server_ip_set)
    /\ UNCHANGED apiHosts
    /\ UNCHANGED <<engineVars, lockVars, notifierVars, configVars, storeVars,
                   statusVars, idVars>>

NextApi == GetConfigRequest

(***************************************************************************)
(* Section numbers given by the web GUI                                    *)
(***************************************************************************)
MaxId == 4

SetMax(ids) == CHOOSE n \in ids : \A k \in ids : k <= n

\* The lowest positive number that is not in use.
NextNumLowestUnused(ids) ==
    CHOOSE n \in 1..(Cardinality(ids) + 1) :
        n \notin ids /\ \A k \in 1..(n - 1) : k \in ids

\* next_num = max(existing_numbers) + 1 if existing_numbers else 1
NextNum(ids) == IF ids = {} THEN 1 ELSE SetMax(ids) + 1

NoAdd == [done |-> FALSE, prefix |-> "WAKE_HOST_", id |-> 0, before |-> {}]

IdsIdle == wakeIds = {} /\ schedIds = {} /\ lastAdd = NoAdd

\* add_wake_host
AddWakeHost ==
    /\ NextNum(wakeIds) <= MaxId
    /\ wakeIds' = wakeIds \cup {NextNum(wakeIds)}
    /\ lastAdd' = [done |-> TRUE, prefix |-> "WAKE_HOST_",
                   id |-> NextNum(wakeIds), before |-> wakeIds]
    /\ UNCHANGED schedIds
    /\ UNCHANGED <<engineVars, lockVars, notifierVars, configVars, storeVars,
                   statusVars, apiVars>>

\* delete_wake_host
DeleteWakeHost ==
    /\ \E n \in wakeIds : wakeIds' = wakeIds \ {n}
    /\ UNCHANGED <<schedIds, lastAdd>>
    /\ UNCHANGED <<engineVars, lockVars, notifierVars, configVars, storeVars,
                   statusVars, apiVars>>

\* add_schedule
AddSchedule ==
    /\ NextNum(schedIds) <= MaxId
    /\ schedIds' = schedIds \cup {NextNum(schedIds)}
    /\ lastAdd' = [done |-> TRUE, prefix |-> "SCHEDULE_",
                   id |-> NextNum(schedIds), before |-> schedIds]
    /\ UNCHANGED wakeIds
    /\ UNCHANGED <<engineVars, lockVars, notifierVars, configVars, storeVars,
                   statusVars, apiVars>>

\* delete_schedule
DeleteSchedule ==
    /\ \E n \in schedIds : schedIds' = schedIds \ {n}
    /\ UNCHANGED <<wakeIds, lastAdd>>
    /\ UNCHANGED <<engineVars, lockVars, notifierVars, configVars, storeVars,
                   statusVars, apiVars>>

NextIds == AddWakeHost \/ DeleteWakeHost \/ AddSchedule \/ DeleteSchedule

(***************************************************************************)
(* Specifications                                                          *)
(***************************************************************************)
NotifierIdle ==
    /\ tick = StartTime * TicksPerSecond
    /\ debounceStamp = NoStamp
    /\ notifyOn = [c \in Categories |-> TRUE]
    /\ sendLog = <<>>

Init ==
    /\ \E scheds \in ScheduleConfigs, n \in 0..MaxSentinels, delay \in 0..MaxWolDelay :
         EngineStart(scheds, n, delay)
    /\ ClientStart(MaxStaleMinutes)
    /\ LockStart
    /\ NotifierIdle
    /\ ConfigIdle
    /\ StoreIdle
    /\ StatusIdle
    /\ ApiIdle
    /\ IdsIdle

Next == Cycle \/ GuiSaveMainConfig

\* The power state machine, cycle after cycle.
Spec == Init /\ [][Next]_vars

\* A step of Cycle, told by the clock: Cycle is the only action that
\* advances it, and it does so whenever the run has not ended.
CycleStep == now <= EndOfTime /\ now' = now + CHECK_INTERVAL_SECONDS

\* The power state machine with the scheduler starting every sub-poll that
\* is due: cron starts an invocation each minute and the loop of __main__
\* runs its CHECK_ITERATIONS sub-polls.
SpecLive == Init /\ [][Next]_vars /\ WF_now(CycleStep)

InitLock ==
    /\ EngineStart(<<>>, 0, 0) /\ ClientStart(0) /\ LockStart /\ NotifierIdle
    /\ ConfigIdle
    /\ StoreIdle
    /\ StatusIdle
    /\ ApiIdle
    /\ IdsIdle

\* The invocations the scheduler starts, contending for the lock.
SpecLock == InitLock /\ [][NextLock]_vars

InitNotifier ==
    /\ EngineStart(<<>>, 0, 0) /\ ClientStart(0) /\ LockStart /\ NotifierStart
    /\ ConfigIdle
    /\ StoreIdle
    /\ StatusIdle
    /\ ApiIdle
    /\ IdsIdle

\* The notifier, call after call.
SpecNotifier == InitNotifier /\ [][NextNotifier]_vars

InitClients ==
    /\ EngineStart(<<>>, 1, 0)
    /\ \E stale \in 0..MaxStaleMinutes : ClientStart(stale)
    /\ LockStart
    /\ NotifierIdle
    /\ ConfigIdle
    /\ StoreIdle
    /\ StatusIdle
    /\ ApiIdle
    /\ IdsIdle

NextClients == Cycle \/ ApiReport

\* The engine's cycles with a monitored client reporting through the API.
SpecClients == InitClients /\ [][NextClients]_vars

\* Sub-polls that the night run takes after midnight.
NightTicks == 2

EndOfNight == SecondsPerDay + NightTicks * CHECK_INTERVAL_SECONDS

InitNight ==
    /\ \E scheds \in ScheduleConfigs \ {<<>>} : EngineStart(scheds, 1, 0)
    /\ ClientStart(MaxStaleMinutes)
    /\ LockStart /\ NotifierIdle /\ ConfigIdle /\ StoreIdle /\ StatusIdle /\ ApiIdle /\ IdsIdle

\* One sub-poll of __main__ in a run that goes on into the next day.
CycleNight == CycleUntil(EndOfNight)

\* The engine alone, from 23:58 of one day into the first sub-polls of the next.
SpecNight == InitNight /\ [][CycleNight]_vars

\* One-time records around a start at 23:58 of the first day: no stop record
\* at all, a stop record at 23:59, a stop record of the next day only, and a
\* stop record at 23:59 listed after the stop record of a window that ended
\* at 23:57.
WindowConfigs ==
    { << OneTime("SCHEDULE_1", DateOf(StartTime), HM(23, 58), "start") >>,
      << OneTime("SCHEDULE_1", DateOf(StartTime), HM(23, 58), "start"),
         OneTime("SCHEDULE_2", DateOf(StartTime), HM(23, 59), "stop") >>,
      << OneTime("SCHEDULE_1", DateOf(StartTime), HM(23, 58), "start"),
         OneTime("SCHEDULE_2", DateOf(StartTime) + 1, HM(23, 59), "stop") >>,
      << OneTime("SCHEDULE_1", DateOf(StartTime), HM(23, 57), "stop"),
         OneTime("SCHEDULE_2", DateOf(StartTime), HM(23, 58), "start"),
         OneTime("SCHEDULE_3", DateOf(StartTime), HM(23, 59), "stop") >> }

InitWindow ==
    /\ \E scheds \in WindowConfigs : EngineStart(scheds, 1, 0)
    /\ ClientStart(MaxStaleMinutes)
    /\ LockStart /\ NotifierIdle /\ ConfigIdle /\ StoreIdle /\ StatusIdle /\ ApiIdle /\ IdsIdle

\* The engine and the web GUI with one-time schedule records only.
SpecWindow == InitWindow /\ [][Next]_vars

\* Recurring records on the first day: a start at 23:58 without a stop
\* record, a window 23:57-23:58 whose stop time comes first, a window
\* 23:58-23:59, and a start of the day's own name whose only stop record
\* belongs to another day of the week.
RecurringConfigs ==
    { << Recurring("SCHEDULE_1", "everyday", HM(23, 58), "start") >>,
      << Recurring("SCHEDULE_1", "everyday", HM(23, 57), "start"),
         Recurring("SCHEDULE_2", "everyday", HM(23, 58), "stop") >>,
      << Recurring("SCHEDULE_1", "everyday", HM(23, 58), "start"),
         Recurring("SCHEDULE_2", "everyday", HM(23, 59), "stop") >>,
      << Recurring("SCHEDULE_1", DayNameOf(StartTime), HM(23, 58), "start"),
         Recurring("SCHEDULE_2", DayNameOf(StartTime + SecondsPerDay), HM(23, 59), "stop") >> }

InitRecurring ==
    /\ \E scheds \in RecurringConfigs : EngineStart(scheds, 1, 0)
    /\ ClientStart(MaxStaleMinutes)
    /\ LockStart /\ NotifierIdle /\ ConfigIdle /\ StoreIdle /\ StatusIdle /\ ApiIdle /\ IdsIdle

\* The engine and the web GUI with recurring schedule records only.
SpecRecurring == InitRecurring /\ [][Next]_vars

\* The records of a configuration with ENABLED set as f says.
WithEnabled(scheds, f) ==
    [i \in 1..Len(scheds) |-> [scheds[i] EXCEPT !.Enabled = f[i]]]

\* Every configuration of ScheduleConfigs under every assignment of ENABLED.
EnabledConfigs ==
    UNION { { WithEnabled(scheds, f) : f \in [1..Len(scheds) -> BOOLEAN] } :
            scheds \in ScheduleConfigs }

InitEnabled ==
    /\ \E scheds \in EnabledConfigs : EngineStart(scheds, 1, 0)
    /\ ClientStart(MaxStaleMinutes)
    /\ LockStart /\ NotifierIdle /\ ConfigIdle /\ StoreIdle /\ StatusIdle /\ ApiIdle /\ IdsIdle

\* The engine and the web GUI with schedule records enabled and disabled.
SpecEnabled == InitEnabled /\ [][Next]_vars

\* Configurations in which two records name the same minute: a recurring
\* start and a one-time stop at 23:58, the same with the first record
\* disabled, and a one-time stop before a recurring start at 23:59.
SameMinuteConfigs ==
    LET pair == << Recurring("SCHEDULE_1", "everyday", HM(23, 58), "start"),
                   OneTime("SCHEDULE_2", DateOf(StartTime), HM(23, 58), "stop") >>
    IN  { pair,
          WithEnabled(pair, <<FALSE, TRUE>>),
          << OneTime("SCHEDULE_1", DateOf(StartTime), HM(23, 59), "stop"),
             Recurring("SCHEDULE_2", "everyday", HM(23, 59), "start") >> }

InitSameMinute ==
    /\ \E scheds \in SameMinuteConfigs : EngineStart(scheds, 1, 0)
    /\ ClientStart(MaxStaleMinutes)
    /\ LockStart /\ NotifierIdle /\ ConfigIdle /\ StoreIdle /\ StatusIdle /\ ApiIdle /\ IdsIdle

\* The engine and the web GUI with schedule records that name the same minute.
SpecSameMinute == InitSameMinute /\ [][Next]_vars

InitEngineApi ==
    /\ \E scheds \in {<<>>, << Recurring("SCHEDULE_1", "everyday", HM(23, 58), "start") >>} :
         EngineStart(scheds, 1, 0)
    /\ ClientStart(0)
    /\ LockStart
    /\ NotifierIdle
    /\ ConfigIdle
    /\ StoreIdle
    /\ StatusIdle
    /\ ApiIdle
    /\ IdsIdle

NextEngineApi == Cycle \/ GuiSaveMainConfig \/ ApiReport

\* The power state machine with the web GUI switching simulation mode and a
\* client reporting to the API between cycles; every report is stale at the
\* next cycle.
SpecEngineApi == InitEngineApi /\ [][NextEngineApi]_vars

NextSentinels == Cycle \/ GuiSaveMainConfigHosts

\* The power state machine with the sentinel list edited between cycles.
SpecSentinels == Init /\ [][NextSentinels]_vars

InitConfig ==
    /\ EngineStart(<<>>, 0, 0) /\ ClientStart(0) /\ LockStart /\ NotifierIdle
    /\ ConfigStart
    /\ StoreIdle
    /\ StatusIdle
    /\ ApiIdle
    /\ IdsIdle

\* save_setting_to_config applied to a config file, then a full load.
SpecConfig == InitConfig /\ [][NextConfig]_vars

InitStore ==
    /\ EngineStart(<<>>, 0, 0) /\ ClientStart(0) /\ LockStart /\ NotifierIdle
    /\ ConfigIdle
    /\ StoreStart
    /\ StatusIdle
    /\ ApiIdle
    /\ IdsIdle

\* One engine update and one GUI save of the config file, interleaved.
SpecStore == InitStore /\ [][NextStore]_vars

InitStatus ==
    /\ EngineStart(<<>>, 0, 0) /\ ClientStart(0) /\ LockStart /\ NotifierIdle
    /\ ConfigIdle
    /\ StoreIdle
    /\ StatusStart
    /\ ApiIdle
    /\ IdsIdle

\* The engine records a WoL status while the API takes a status report.
SpecStatus == InitStatus /\ [][NextStatus]_vars

InitApi ==
    /\ EngineStart(<<>>, 0, 0) /\ ClientStart(0) /\ LockStart /\ NotifierIdle
    /\ ConfigIdle
    /\ StoreIdle
    /\ StatusIdle
    /\ ApiStart
    /\ IdsIdle

\* Requests to the API's /config endpoint.
SpecApi == InitApi /\ [][NextApi]_vars

InitIds ==
    /\ EngineStart(<<>>, 0, 0) /\ ClientStart(0) /\ LockStart /\ NotifierIdle
    /\ ConfigIdle
    /\ StoreIdle
    /\ StatusIdle
    /\ ApiIdle
    /\ IdsIdle

\* Wake hosts and schedules added and deleted in the web GUI.
SpecIds == InitIds /\ [][NextIds]_vars

(***************************************************************************)
(* Reading the last cycle                                                  *)
(***************************************************************************)
CycleDone == lastAct = "cycle"

Sent(note) == \E k \in 1..Len(cyc.pm.notes) : cyc.pm.notes[k] = note

SomeReachable == \E k \in 1..Len(cyc.pings) : cyc.pings[k] = "up"

NoneReachable ==
    cyc.pings # <<>> /\ \A k \in 1..Len(cyc.pings) : cyc.pings[k] # "up"

Elapsed == cyc.at - cyc.pre.TIMESTAMP

OB_LB == "ups.status: OB LB"

IgnoringHosts == { h \in WakeHosts : IgnoreSimulation(h) }

\* The messages of the state machine and of the schedule evaluator: the
\* categories POWER_FAIL, POWER_RESTORED and SIMULATION_MODE.
StateMachineNotes ==
    {"SIM_ACTIVE", "POWER_FAIL", "SIM_RESTORED", "POWER_RESTORED_WINDOW_ENDED",
     "SIM_STOPPED", "POWER_RESTORED", "WOL_INITIATED"}

ScheduleNotes == {"SIM_STARTED", "SIM_STOPPED_BY_SCHEDULE"}

IsPowerOrSimulationNote(n) == n \in StateMachineNotes \cup ScheduleNotes

PowerOrSimulationNotes == SelectSeq(cyc.pm.notes, IsPowerOrSimulationNote)

(***************************************************************************)
(* C1 - Idempotence in POWER_FAIL: a cycle that starts with persisted      *)
(* state POWER_FAIL and computes OFFLINE sends neither the power-fail nor  *)
(* the simulation-active notification, leaves the state POWER_FAIL and     *)
(* writes 'ups.status: OB LB' to the UPS status indicator.                 *)
(***************************************************************************)
C1_IdempotentPowerFail ==
    (CycleDone /\ cyc.pre.STATE = "POWER_FAIL" /\ cyc.pm.status = "OFFLINE")
    => /\ ~Sent("POWER_FAIL")
       /\ ~Sent("SIM_ACTIVE")
       /\ stateFile.STATE = "POWER_FAIL"
       /\ cyc.pm.ups_writes = <<OB_LB>>
       /\ upsFile = OB_LB

\* A second or later consecutive OFFLINE cycle in POWER_FAIL.
C1_Witness ==
    /\ CycleDone /\ cyc.pre.STATE = "POWER_FAIL" /\ cyc.pm.status = "OFFLINE"
    /\ ~cyc.pre.SIM_INTERRUPTED
    /\ Elapsed >= 2 * CHECK_INTERVAL_SECONDS

(***************************************************************************)
(* C2 - Interruption law: a cycle that reads simulation mode ON, has an    *)
(* active schedule window and finds every sentinel unreachable ends, for   *)
(* every persisted state it started from, with simulation mode off in the  *)
(* config, state POWER_FAIL and SIM_INTERRUPTED=true with the schedule and *)
(* the end time of the active window in INTERRUPTED_SCHEDULE.              *)
(***************************************************************************)
C2_InterruptionLaw ==
    LET w == ShouldSimulationBeActiveNow(cyc.pm.schedules, cyc.at)
    IN  (CycleDone /\ cyc.pm.sim_read /\ NoneReachable /\ w.active)
        => /\ ~configSim
           /\ stateFile.STATE = "POWER_FAIL"
           /\ stateFile.SIM_INTERRUPTED
           /\ stateFile.INTERRUPTED_SCHEDULE.schedule = w.schedule
           /\ stateFile.INTERRUPTED_SCHEDULE.end_time = w.end_time

(***************************************************************************)
(* C3 - Restoration-resume law, part 1 (as claimed): a cycle that starts   *)
(* in POWER_FAIL with a recorded interruption, has a sentinel reachable    *)
(* and runs before the recorded window end turns simulation mode on,       *)
(* persists POWER_RESTORED_SIM with the interruption record kept, and      *)
(* sends no Wake-on-LAN packet.                                            *)
(***************************************************************************)
C3_Resumes ==
    /\ configSim
    /\ stateFile.STATE = "POWER_RESTORED_SIM"
    /\ stateFile.SIM_INTERRUPTED
    /\ stateFile.INTERRUPTED_SCHEDULE = cyc.pre.INTERRUPTED_SCHEDULE
    /\ ~cyc.pm.wol_ran /\ cyc.pm.wol_cmd = {}

C3_Start ==
    /\ CycleDone /\ cyc.pre.STATE = "POWER_FAIL"
    /\ cyc.pre.SIM_INTERRUPTED /\ cyc.pre.INTERRUPTED_SCHEDULE # NullInfo
    /\ SomeReachable
    /\ StrLess(TimeOf(cyc.at), cyc.pre.INTERRUPTED_SCHEDULE.end_time)

C3_AsClaimed == C3_Start => C3_Resumes

(***************************************************************************)
(* C3 (amended) - the same, for the cycles in which status determination   *)
(* reads simulation mode off, so that the computed status is ONLINE.       *)
(***************************************************************************)
C3_ResumeWhenSimulationOff == (C3_Start /\ ~cyc.pm.sim_read) => C3_Resumes

C3_Witness == C3_Start /\ ~cyc.pm.sim_read /\ Sent("SIM_RESTORED")

(***************************************************************************)
(* C4 - Restoration-resume law, part 2: a cycle that starts in             *)
(* POWER_RESTORED_SIM with at least the WoL delay elapsed since the        *)
(* persisted timestamp runs the wake sequence; with simulation mode on at  *)
(* that moment WoL goes only to hosts with IGNORE_SIMULATION=true; after   *)
(* the cycle the persisted record is the initial one (no STATE, no         *)
(* interruption flag, no interrupted-schedule metadata).                   *)
(***************************************************************************)
C4_WakeAfterResume ==
    (/\ CycleDone /\ cyc.pre.STATE = "POWER_RESTORED_SIM"
     /\ Elapsed >= cyc.wol_delay * SecondsPerMinute)
    => /\ cyc.pm.wol_ran
       /\ cyc.pm.config_sim => cyc.pm.wol_cmd \subseteq IgnoringHosts
       /\ stateFile.STATE = "None"
       /\ ~stateFile.SIM_INTERRUPTED
       /\ stateFile.INTERRUPTED_SCHEDULE = NullInfo

\* Simulation is on, both AUTO_WOL hosts are down, only the ignoring one is woken.
C4_Witness ==
    /\ CycleDone /\ cyc.pre.STATE = "POWER_RESTORED_SIM"
    /\ cyc.wol_delay > 0 /\ Elapsed = cyc.wol_delay * SecondsPerMinute
    /\ cyc.pm.config_sim
    /\ cyc.pm.wol_cmd = {"WAKE_HOST_1"}

(***************************************************************************)
(* C5 - Sentinel rule: with simulation mode off and sentinels configured,  *)
(* the status is ONLINE when at least one sentinel answers the ping and    *)
(* OFFLINE when none does; a ping that times out or raises an OS error     *)
(* counts as no answer.                                                    *)
(***************************************************************************)
C5_SentinelRule ==
    (CycleDone /\ ~cyc.pm.sim_read /\ cyc.pings # <<>>)
    => /\ SomeReachable => cyc.pm.status = "ONLINE"
       /\ ~SomeReachable => cyc.pm.status = "OFFLINE"

\* One sentinel answers, another one's ping raises.
C5_Witness ==
    /\ CycleDone /\ ~cyc.pm.sim_read
    /\ \E i, j \in 1..Len(cyc.pings) : cyc.pings[i] = "up" /\ cyc.pings[j] = "error"
    /\ cyc.pm.status = "ONLINE"

(***************************************************************************)
(* C6 - Exactly-once side effects (as claimed): between two entries into   *)
(* POWER_FAIL the wake sequence runs at most once, and a cycle that starts *)
(* from the initial state with status ONLINE sends no WoL packet and no    *)
(* power-fail, power-restored or simulation notification.                  *)
(***************************************************************************)
C6_Start == CycleDone /\ cyc.pre.STATE = "None" /\ cyc.pm.status = "ONLINE"

C6_AsClaimed ==
    /\ wakes <= 1
    /\ C6_Start => (cyc.pm.wol_cmd = {} /\ PowerOrSimulationNotes = <<>>)

(***************************************************************************)
(* C6 (amended) - the same, except that such a cycle may announce a        *)
(* schedule it executed: the state machine sends nothing, and the only     *)
(* notification possible is the schedule evaluator's 'simulation started'  *)
(* or 'simulation stopped' for the record that matched in sub-poll 0.      *)
(***************************************************************************)
C6_OncePerEpisode ==
    /\ wakes <= 1
    /\ C6_Start
       => /\ cyc.pm.wol_cmd = {} /\ ~cyc.pm.wol_ran
          /\ \A n \in StateMachineNotes : ~Sent(n)
          /\ PowerOrSimulationNotes
                \in {<<>>, <<"SIM_STARTED">>, <<"SIM_STOPPED_BY_SCHEDULE">>}
          /\ PowerOrSimulationNotes # <<>>
             => cyc.iteration = 0 /\ FirstMatch(cyc.preSchedules, cyc.at) # 0

\* A cycle in the initial state, ONLINE, after the episode's wake sequence.
C6_Witness == C6_Start /\ wakes = 1 /\ cyc.pre = EmptyStateFile /\ cyc.at > StartTime

(***************************************************************************)
(* C7 - The wake sequence waits for stable power: no cycle in which every  *)
(* configured sentinel is unreachable sends a Wake-on-LAN packet.          *)
(***************************************************************************)
C7_NoWolDuringOutage == (CycleDone /\ NoneReachable) => cyc.pm.wol_cmd = {}

C9_SingleInstance ==
    /\ Cardinality({ p \in Invocations : pc[p] = "running" }) <= 1
    /\ \A p \in Invocations : pc[p] = "skipped" => subPolls[p] = 0

(***************************************************************************)
(* C10 - Debounce law: of two APP_ERROR send attempts less than 3600       *)
(* seconds apart (NOTIFY_APP_ERROR enabled) exactly one leads to a         *)
(* delivery attempt: never both, and when no delivery was attempted in the *)
(* 3600 seconds before the first, the first is attempted and the second is *)
(* suppressed, whether or not the first delivery failed.                   *)
(***************************************************************************)
AppErrorAttempts ==
    { k \in 1..Len(sendLog) :
        sendLog[k].category = "APP_ERROR" /\ sendLog[k].outcome # "disabled" }

DeliveryAttempted(k) == sendLog[k].outcome \in {"delivered", "failed"}

Within3600(i, j) ==
    i < j /\ sendLog[j].at - sendLog[i].at < DEBOUNCE_SECONDS * TicksPerSecond

C10_DebounceLaw ==
    \A i, j \in AppErrorAttempts :
        Within3600(i, j)
        => /\ ~(DeliveryAttempted(i) /\ DeliveryAttempted(j))
           /\ (\A k \in AppErrorAttempts : Within3600(k, i) => ~DeliveryAttempted(k))
              => (DeliveryAttempted(i) /\ ~DeliveryAttempted(j))


(***************************************************************************)
(* C11  Staleness recovery                                                 *)
(***************************************************************************)
ClientHosts == { h \in WakeHosts : Monitored(h) }

\* The last cycle found the entry of h present and not older than the
\* threshold.
FoundFresh(h) ==
    /\ CycleDone
    /\ cyc.pm.client_status[h].status # "absent"
    /\ ~FoundStale(cyc.pm, h, cyc.at)

C11_FlagCleared ==
    \A h \in ClientHosts : FoundFresh(h) => StaleFlag(h) \notin clientNotified

\* C11 as stated: over consecutive cycles that find the entry of a monitored
\* client older than the stale threshold exactly one stale notification is
\* sent, every new run of such cycles sends one again, and the first cycle
\* that finds the entry fresh removes the stale flag.
C11_AsClaimed ==
    /\ \A h \in ClientHosts : staleRun[h] >= 1 => staleSent[h] = 1
    /\ C11_FlagCleared

\* C11 amended: a fresh power-fail transition resets the client flags, so
\* exactly one stale notification is sent over consecutive stale cycles
\* counted from the start of the run or from the last cycle that took the
\* state to POWER_FAIL; the first fresh cycle removes the stale flag, and a
\* later staleness sends a new notification.
C11_StalenessRecovery ==
    /\ \A h \in ClientHosts : staleRun[h] >= 1 => staleSentEp[h] = 1
    /\ C11_FlagCleared

\* A cycle finds the entry of a client fresh again and removes the stale
\* flag an earlier cycle had set when it sent the notification.
C11_Witness ==
    /\ FoundFresh("WAKE_HOST_1")
    /\ StaleFlag("WAKE_HOST_1") \in cyc.preNotified
    /\ StaleFlag("WAKE_HOST_1") \notin clientNotified

(***************************************************************************)
(* C12  Config round-trip                                                  *)
(***************************************************************************)
Loaded == ReadPowerManagerConfig(confFile)
LoadedBefore == ReadPowerManagerConfig(confCall.before)

\* C12: a full load after save_setting_to_config(key, value, section)
\* returns the value under that key in that scope, for every file, key,
\* value without edge quotes and scope.
C12_RoundTrip ==
    confCall.done => Lookup(Loaded, confCall.section, confCall.key) = confCall.value

(***************************************************************************)
(* C13  Single-key update frame                                            *)
(***************************************************************************)
Scopes == {NoSection} \cup SectionNames

SectionPresent(loaded, n) == n # NoSection /\ loaded.sections[n].present

\* C13: after save_setting_to_config(key, value, section) a full load
\* returns the same value as before for every other key of every scope, and
\* no scope other than the targeted one gains or loses a key.
C13_Frame ==
    confCall.done =>
        \A sc \in Scopes, k \in ConfKeys :
            (sc # confCall.section \/ k # confCall.key)
                => Lookup(Loaded, sc, k) = Lookup(LoadedBefore, sc, k)

(***************************************************************************)
(* C14  One-time schedules fire at most once                               *)
(***************************************************************************)
OneTimeRecords == { i \in 1..Len(schedules) : schedules[i].TYPE = "one-time" }

\* C14: over any sequence of cycles the action of a one-time schedule
\* record is executed at most once, and once it has been executed the
\* record's ENABLED value in the config is false.
C14_OneTimeOnce ==
    \A i \in OneTimeRecords :
        /\ fired[schedules[i].section] <= 1
        /\ fired[schedules[i].section] = 1 => ~schedules[i].Enabled

\* Both one-time records of a configuration have fired, the first of them
\* a minute before the second, and a later cycle has run.
C14_Witness ==
    /\ CycleDone
    /\ cyc.iteration # 0
    /\ OneTimeRecords = {1, 2}
    /\ fired["SCHEDULE_1"] = 1
    /\ fired["SCHEDULE_2"] = 1

(***************************************************************************)
(* C15  Schedules are evaluated only in the first sub-poll                 *)
(***************************************************************************)
IsScheduleNote(n) == n \in ScheduleNotes

ScheduleActions == Len(SelectSeq(cyc.pm.notes, IsScheduleNote))

\* C15: sub-polls 1..3 execute no schedule action, whatever record matches
\* the minute: they announce none and leave the schedule records as they
\* are; sub-poll 0 executes at most one, so a schedule changes the
\* simulation flag at most once per outer invocation.
C15_FirstSubPollOnly ==
    CycleDone =>
        /\ cyc.iteration # 0 =>
              /\ ScheduleActions = 0
              /\ schedules = cyc.preSchedules
        /\ cyc.iteration = 0 => ScheduleActions <= 1

\* A sub-poll other than the first runs in a minute that an enabled
\* schedule record matches.
C15_Witness ==
    /\ CycleDone
    /\ cyc.iteration # 0
    /\ FirstMatch(cyc.preSchedules, cyc.at) # 0

(***************************************************************************)
(* C16  Config store serialization                                         *)
(***************************************************************************)
BothDone == engPc = "done" /\ guiPc = "done"

EngineThenGui == GuiUpdate(EngineUpdate(store0, engCall), guiForm)

GuiThenEngine == EngineUpdate(GuiUpdate(store0, guiForm), engCall)

\* C16: however an engine single-key update and a GUI save of the whole
\* config interleave, the file ends as if one had run after the other, so
\* the engine's update of POWER_SIMULATION_MODE or ENABLED is not replaced
\* by a value the GUI read before it.
C16_Serialized == BothDone => store \in {EngineThenGui, GuiThenEngine}

(***************************************************************************)
(* C17  Client status record preserves other entries                       *)
(***************************************************************************)
BothRecorded == wolPc = "done" /\ apiPc = "done"

\* After both writers have finished the store has the entries it started
\* with and one entry for each writer's IP.
BothEntriesKept == BothRecorded => statusFile.whole /\ {WolIp, ApiIp} \subseteq statusFile.ips

\* No read has met a store that was not whole.
NoPartialRead == ~partialRead

\* C17: however the engine's recording of a WoL status for one IP and the
\* API's upsert of a report for another IP interleave, the store afterwards
\* has both entries, and no reader observes a partially written store.
C17_BothEntries == BothEntriesKept /\ NoPartialRead

(***************************************************************************)
(* C18  No sentinels configured                                            *)
(***************************************************************************)
NoSentinels == CycleDone /\ cyc.pings = <<>>

OnlineUnrecorded ==
    /\ cyc.pm.status = "ONLINE"
    /\ cyc.pm.sim_info = NotActive
    /\ cyc.pm.simulation_interrupted => cyc.pre.SIM_INTERRUPTED

\* C18: with an empty sentinel list every cycle computes status ONLINE,
\* records no interruption and leaves the simulation flag in the config as
\* it was.
C18_AsClaimed == NoSentinels => OnlineUnrecorded /\ configSim = cyc.preSim

\* C18 (amended): with an empty sentinel list every cycle computes status
\* ONLINE and records no interruption; the flag that status determination
\* reads differs from the one the cycle started with only when sub-poll 0
\* has executed a schedule record, and the flag the cycle leaves differs
\* from the one read only when the cycle starts in POWER_FAIL with a
\* recorded interruption and resumes the simulation, turning the flag on.
C18_NoSentinelsOnline ==
    NoSentinels =>
        /\ OnlineUnrecorded
        /\ cyc.pm.sim_read # cyc.preSim =>
              cyc.iteration = 0 /\ ScheduleActions = 1
        /\ configSim # cyc.pm.sim_read =>
              /\ cyc.pre.STATE = "POWER_FAIL" /\ cyc.pre.SIM_INTERRUPTED
              /\ Sent("SIM_RESTORED") /\ configSim

\* A cycle without sentinels reads simulation mode on, with a schedule
\* window open, and computes ONLINE.
C18_Witness ==
    /\ NoSentinels
    /\ cyc.pm.sim_read
    /\ ShouldSimulationBeActiveNow(cyc.pm.schedules, cyc.at).active
    /\ cyc.pm.status = "ONLINE"

(***************************************************************************)
(* C19  Outbound config contract                                           *)
(***************************************************************************)
ValidRequest == apiReq.done /\ apiReq.token_ok

KnownIp == FirstHost(apiHosts, apiReq.ip) # 0

\* A known IP whose record has no SHUTDOWN_DELAY_MINUTES is answered with
\* SHUTDOWN_DELAY_MINUTES = 5.
DefaultDelay ==
    (/\ ValidRequest /\ KnownIp /\ apiReq.server_ip_set
     /\ apiHosts[FirstHost(apiHosts, apiReq.ip)].SHUTDOWN_DELAY_MINUTES = NoDelay)
    => apiResp = Returned(200, "5")

\* C19: a /config request with a valid token for an IP that matches no
\* wake-host record is answered with HTTP 404, and one for a known IP whose
\* record has no SHUTDOWN_DELAY_MINUTES carries SHUTDOWN_DELAY_MINUTES = 5.
C19_OutboundConfig ==
    /\ (ValidRequest /\ ~KnownIp) => apiResp.code = 404
    /\ DefaultDelay

(***************************************************************************)
(* C20  Section identifier generation                                      *)
(***************************************************************************)
\* C20: the number of an added section is the lowest positive integer not
\* used by a section of the same prefix, and is not one of the numbers in
\* use.
C20_AsClaimed ==
    lastAdd.done =>
        /\ lastAdd.id = NextNumLowestUnused(lastAdd.before)
        /\ lastAdd.id \notin lastAdd.before

\* C20 (amended): the number of an added section is one more than the
\* highest number used by a section of the same prefix, 1 when there is
\* none, and is not one of the numbers in use.
C20_AfterHighest ==
    lastAdd.done =>
        /\ lastAdd.id >= 1
        /\ \A n \in lastAdd.before : n < lastAdd.id
        /\ lastAdd.before # {} => lastAdd.id - 1 \in lastAdd.before
        /\ lastAdd.before = {} => lastAdd.id = 1
        /\ lastAdd.id \notin lastAdd.before

\* WAKE_HOST_1 and WAKE_HOST_3 are present and a wake host is added.
C20_Witness ==
    /\ lastAdd.done
    /\ lastAdd.prefix = "WAKE_HOST_"
    /\ lastAdd.before = {1, 3}
    /\ wakeIds = {1, 3, lastAdd.id}

(***************************************************************************)
(* C21  Final status formula                                               *)
(***************************************************************************)
\* real_power_offline, an empty sentinel list counting as power that is fine.
RealPowerOffline == NoneReachable

OfflineByFormula == (cyc.pm.sim_read /\ ~RealPowerOffline) \/ RealPowerOffline

\* C21: for every configuration, an empty sentinel list included, the
\* status of a cycle is OFFLINE if and only if the simulation flag read at
\* the top is on and real power is not offline, or real power is offline.
C21_AsClaimed == CycleDone => (cyc.pm.status = "OFFLINE" <=> OfflineByFormula)

\* C21 (amended): with at least one sentinel configured the status is
\* OFFLINE if and only if the simulation flag read by status determination
\* is on and real power is not offline, or real power is offline, and
\* ONLINE otherwise; with an empty sentinel list it is ONLINE whatever the
\* simulation flag.
C21_FinalStatus ==
    CycleDone =>
        /\ cyc.pm.status \in {"ONLINE", "OFFLINE"}
        /\ cyc.pings # <<>> => (cyc.pm.status = "OFFLINE" <=> OfflineByFormula)
        /\ cyc.pings = <<>> => cyc.pm.status = "ONLINE"

\* Simulation is read on, a sentinel answers, the status is OFFLINE.
C21_Witness ==
    /\ CycleDone
    /\ cyc.pm.sim_read /\ SomeReachable
    /\ cyc.pm.status = "OFFLINE"

(***************************************************************************)
(* C22  Real outage always wins on the UPS indicator                       *)
(***************************************************************************)
\* C22: at the end of every cycle in which all configured sentinels were
\* unreachable the UPS status indicator reads 'ups.status: OB LB', for
\* every persisted state the cycle started from and either value of the
\* simulation flag.
C22_OutageOnIndicator == (CycleDone /\ NoneReachable) => upsFile = OB_LB

(***************************************************************************)
(* C23  Forced simulation-off on real outage                               *)
(***************************************************************************)
RealOutageInSimulation == CycleDone /\ cyc.pm.sim_read /\ NoneReachable

WindowFound == ShouldSimulationBeActiveNow(cyc.pm.schedules, cyc.at).active

\* The cycle has set the interruption flag or written interruption
\* metadata that the persisted record did not have.
InterruptionSet ==
    \/ ~cyc.pre.SIM_INTERRUPTED
         /\ (cyc.pm.simulation_interrupted \/ stateFile.SIM_INTERRUPTED)
    \/ cyc.pm.interrupted_schedule_info
         \notin {NullInfo, cyc.pre.INTERRUPTED_SCHEDULE}
    \/ stateFile.INTERRUPTED_SCHEDULE
         \notin {NullInfo, cyc.pre.INTERRUPTED_SCHEDULE}

\* C23: in every cycle where the simulation flag is on and all sentinels
\* are unreachable POWER_SIMULATION_MODE is off in the config at the end of
\* the cycle, whether or not the window-match query found an active window;
\* the interruption flag and metadata are set only when a window was found.
C23_ForcedSimulationOff ==
    RealOutageInSimulation =>
        /\ ~configSim
        /\ ~cyc.pm.config_sim
        /\ InterruptionSet => WindowFound

\* The flag was on, no schedule window is open, and the outage switches
\* the flag off without recording an interruption.
C23_Witness ==
    /\ RealOutageInSimulation
    /\ cyc.preSim /\ ~WindowFound
    /\ ~configSim /\ ~stateFile.SIM_INTERRUPTED

(***************************************************************************)
(* C24  Entering POWER_FAIL                                                *)
(***************************************************************************)
EntersPowerFail ==
    /\ CycleDone /\ cyc.pm.status = "OFFLINE"
    /\ cyc.pre.STATE \in {"None", "POWER_RESTORED"}

IsStateMachineNote(n) == n \in StateMachineNotes

\* What _handle_power_offline announces on the transition.
OutageNote == IF cyc.pm.config_sim THEN "SIM_ACTIVE" ELSE "POWER_FAIL"

\* Every client flag persisted by the cycle was set, with its
\* notification, by the cycle's own client check.
FlagsFromThisCycle ==
    \A h \in WakeHosts :
        /\ ShutdownFlag(h) \in clientNotified
             => \E k \in 1..Len(cyc.pm.client_notes) :
                    cyc.pm.client_notes[k] = <<"CLIENT_SHUTDOWN", h>>
        /\ StaleFlag(h) \in clientNotified
             => \E k \in 1..Len(cyc.pm.client_notes) :
                    cyc.pm.client_notes[k] = <<"CLIENT_STALE", h>>

PowerFailEntered ==
    /\ stateFile.STATE = "POWER_FAIL"
    /\ stateFile.TIMESTAMP = cyc.at
    /\ FlagsFromThisCycle
    /\ ~cyc.pm.wol_ran /\ cyc.pm.wol_cmd = {}

\* C24: a cycle with status OFFLINE that starts in NONE or POWER_RESTORED
\* persists POWER_FAIL, empties the client notification flags before the
\* client check, runs no wake sequence, and attempts exactly one
\* notification: SIMULATION_MODE if the simulation flag is on after status
\* determination, otherwise POWER_FAIL.
C24_AsClaimed ==
    EntersPowerFail =>
        /\ PowerFailEntered
        /\ cyc.pm.notes = <<OutageNote>>
        /\ cyc.pm.client_notes = <<>>

\* C24 (amended): such a cycle persists POWER_FAIL, empties the client
\* notification flags before the client check, runs no wake sequence, and
\* its state machine attempts exactly one notification, SIMULATION_MODE if
\* the simulation flag is on after status determination and POWER_FAIL
\* otherwise; the only other notifications of the cycle are the
\* announcement of a schedule record executed in sub-poll 0 and the client
\* notifications of the client check that follows.
C24_EnteringPowerFail ==
    EntersPowerFail =>
        /\ PowerFailEntered
        /\ SelectSeq(cyc.pm.notes, IsStateMachineNote) = <<OutageNote>>
        /\ ScheduleActions <= 1
        /\ ScheduleActions = 1 =>
              cyc.iteration = 0 /\ FirstMatch(cyc.preSchedules, cyc.at) # 0
        /\ Len(cyc.pm.notes) = 1 + ScheduleActions

\* The cycle starts in POWER_RESTORED with the wake sequence due and a
\* client flag set, and goes to POWER_FAIL.
C24_Witness ==
    /\ EntersPowerFail
    /\ cyc.pre.STATE = "POWER_RESTORED"
    /\ Elapsed >= cyc.wol_delay * SecondsPerMinute
    /\ cyc.preNotified # {}
    /\ stateFile.STATE = "POWER_FAIL"

(***************************************************************************)
(* C25  POWER_RESTORED_SIM precedence                                      *)
(***************************************************************************)
StartsRestoredSim == CycleDone /\ cyc.pre.STATE = "POWER_RESTORED_SIM"

\* C25: a cycle that starts in POWER_RESTORED_SIM takes the online branch
\* and its wake-delay test, never the offline branch, also when the
\* computed status is OFFLINE; the persisted record stays as it is until
\* the cycle in which the wake sequence runs, which clears it.
C25_RestoredSimFirst ==
    StartsRestoredSim =>
        /\ cyc.pm.branch = "online"
        /\ cyc.pm.ups_writes = <<"ups.status: OL">>
        /\ ~Sent("POWER_FAIL") /\ ~Sent("SIM_ACTIVE")
        /\ cyc.pm.wol_ran <=> Elapsed >= cyc.wol_delay * SecondsPerMinute
        /\ ~cyc.pm.wol_ran => stateFile = cyc.pre
        /\ cyc.pm.wol_ran => stateFile = EmptyStateFile

\* The status is OFFLINE, the delay has not passed, the state stays.
C25_Witness ==
    /\ StartsRestoredSim
    /\ cyc.pm.status = "OFFLINE"
    /\ ~cyc.pm.wol_ran
    /\ stateFile.STATE = "POWER_RESTORED_SIM"

\* The cycle is the one in which power comes back after a recorded interruption.
RestoredAfterInterruption ==
    /\ CycleDone
    /\ cyc.pre.STATE = "POWER_FAIL"
    /\ cyc.pre.SIM_INTERRUPTED
    /\ cyc.pre.INTERRUPTED_SCHEDULE # NullInfo
    /\ cyc.pm.branch = "online"

\* The moment of the cycle is at or after the end of the interrupted window,
\* which lies on the day the interruption was recorded.
WindowHasEnded ==
    LET info == cyc.pre.INTERRUPTED_SCHEDULE
    IN  \/ DateOf(cyc.at) > info.interrupted_at[1]
        \/ /\ DateOf(cyc.at) = info.interrupted_at[1]
           /\ ~StrLess(TimeOf(cyc.at), info.end_time)

NotResumed ==
    /\ ~configSim
    /\ Sent("POWER_RESTORED_WINDOW_ENDED")
    /\ ~Sent("SIM_RESTORED")
    /\ stateFile.STATE = "POWER_RESTORED"
    /\ ~stateFile.SIM_INTERRUPTED
    /\ stateFile.INTERRUPTED_SCHEDULE = NullInfo

\* C26: when power is restored after a recorded interruption and the
\* interrupted window has already ended, on the same day or on a later one,
\* simulation stays off, the plain power-restored notification is sent, the
\* interruption flag and metadata are cleared and the state is POWER_RESTORED.
C26_NoResumeAfterWindow == (RestoredAfterInterruption /\ WindowHasEnded) => NotResumed

\* C26 on the day of the interruption only.
C26_SameDay ==
    (/\ RestoredAfterInterruption
     /\ WindowHasEnded
     /\ DateOf(cyc.at) = cyc.pre.INTERRUPTED_SCHEDULE.interrupted_at[1]) => NotResumed

C26_SameDayWitness ==
    /\ RestoredAfterInterruption
    /\ WindowHasEnded
    /\ DateOf(cyc.at) = cyc.pre.INTERRUPTED_SCHEDULE.interrupted_at[1]

\* The cycle moves POWER_FAIL to POWER_RESTORED with no interruption recorded.
PlainRestoration ==
    /\ CycleDone
    /\ cyc.pre.STATE = "POWER_FAIL"
    /\ ~cyc.pre.SIM_INTERRUPTED
    /\ stateFile.STATE = "POWER_RESTORED"

\* What the POWER_FAIL branch of _handle_power_online announces.
RestorationNote == IF cyc.pre.SIMULATION THEN "SIM_STOPPED" ELSE "POWER_RESTORED"

\* The body of a 'power restored' message names the elapsed minutes and the
\* wake delay.
RestorationBody ==
    cyc.pm.body = IF cyc.pre.SIMULATION
                  THEN << Elapsed \div SecondsPerMinute >>
                  ELSE << Elapsed \div SecondsPerMinute, cyc.wol_delay >>

\* C27: a cycle that moves POWER_FAIL to POWER_RESTORED with no recorded
\* interruption attempts exactly one notification: 'simulation stopped' if
\* the persisted SIMULATION flag is true, otherwise 'power restored' with the
\* elapsed minutes and the wake delay.
C27_AsClaimed ==
    PlainRestoration =>
        /\ cyc.pm.notes = <<RestorationNote>>
        /\ cyc.pm.client_notes = <<>>
        /\ RestorationBody

\* C27 (amended): in such a cycle the state machine attempts exactly one
\* notification, 'simulation stopped' if the persisted SIMULATION flag is
\* true and otherwise 'power restored' with the elapsed minutes and the wake
\* delay; the only other notifications of the cycle are the announcement of
\* a schedule record executed in sub-poll 0 and the client notifications of
\* the client check that follows.
C27_RestorationNote ==
    PlainRestoration =>
        /\ SelectSeq(cyc.pm.notes, IsStateMachineNote) = <<RestorationNote>>
        /\ RestorationBody
        /\ ScheduleActions <= 1
        /\ ScheduleActions = 1 =>
              cyc.iteration = 0 /\ FirstMatch(cyc.preSchedules, cyc.at) # 0
        /\ Len(cyc.pm.notes) = 1 + ScheduleActions

\* A real outage ends after a whole minute, with a wake delay configured.
C27_Witness ==
    /\ PlainRestoration
    /\ ~cyc.pre.SIMULATION
    /\ Elapsed >= SecondsPerMinute
    /\ cyc.wol_delay > 0
    /\ cyc.pm.notes = <<"POWER_RESTORED">>

\* The end of a simulated outage is announced.
C27_WitnessSimulation ==
    /\ PlainRestoration
    /\ cyc.pre.SIMULATION
    /\ Sent("SIM_STOPPED")

TimestampChanged == CycleDone /\ stateFile.TIMESTAMP # cyc.pre.TIMESTAMP

\* C28: the TIMESTAMP of the persisted power state record changes only in a
\* cycle in which the STATE value changes, also when an interruption is
\* recorded while the state is POWER_FAIL already.
C28_TimestampOfTransition == TimestampChanged => stateFile.STATE # cyc.pre.STATE

\* C28 for the cycles that end with no interruption recorded.
C28_WithoutInterruption ==
    (TimestampChanged /\ ~cyc.pm.simulation_interrupted) =>
        stateFile.STATE # cyc.pre.STATE

\* The minutes named at restoration are those since the state entered
\* POWER_FAIL: the record of a POWER_FAIL state carries the time of entry.
C28_WithoutInterruptionWitness ==
    /\ TimestampChanged
    /\ ~cyc.pm.simulation_interrupted
    /\ cyc.pre.STATE = "POWER_FAIL"

WakeSequenceRan == CycleDone /\ cyc.pm.wol_ran

\* C29: at the end of the cycle in which the wake sequence runs the persisted
\* power state record is empty and no shutdown-notified or stale-notified
\* flag that was persisted before the cycle is persisted still.
C29_ClearedAfterWake ==
    WakeSequenceRan =>
        /\ stateFile = EmptyStateFile
        /\ clientNotified \cap cyc.preNotified = {}

\* C29, the power state record alone.
C29_StateFileCleared == WakeSequenceRan => stateFile = EmptyStateFile

C29_StateFileClearedWitness ==
    /\ WakeSequenceRan
    /\ cyc.preNotified # {}
    /\ cyc.pre.STATE = "POWER_RESTORED"

\* The cycle evaluated _should_simulation_be_active_now: simulation mode was
\* on and no sentinel answered.
WindowMatchEvaluated == CycleDone /\ cyc.pm.sim_read /\ NoneReachable

\* Record i of the cycle's schedules is a one-time start record of today
\* whose time is at or before now.
StartedToday(i) ==
    LET p == cyc.pm.schedules[i]
    IN  /\ p.Action = "start" /\ p.TYPE = "one-time"
        /\ p.DATE = DateOf(cyc.at)
        /\ StrLeq(p.TIME, TimeOf(cyc.at))

StopRecordsOf(i) ==
    { j \in 1..Len(cyc.pm.schedules) :
        /\ cyc.pm.schedules[j].Action = "stop"
        /\ cyc.pm.schedules[j].DATE = cyc.pm.schedules[i].DATE }

StopLater(i) ==
    \E j \in StopRecordsOf(i) : StrLess(TimeOf(cyc.at), cyc.pm.schedules[j].TIME)

\* C30: a one-time start record of today whose time is at or before now is
\* reported in window when a stop record with the same date has a time
\* strictly later than now, and also when no stop record with that date
\* exists.
C30_WindowMatch ==
    WindowMatchEvaluated =>
        \A i \in 1..Len(cyc.pm.schedules) :
            (StartedToday(i) /\ (StopLater(i) \/ StopRecordsOf(i) = {}))
                => cyc.pm.sim_info.active

\* C30, first half alone.
C30_StopLater ==
    WindowMatchEvaluated =>
        \A i \in 1..Len(cyc.pm.schedules) :
            (StartedToday(i) /\ StopLater(i)) => cyc.pm.sim_info.active

\* C30, second half alone.
C30_NoStop ==
    WindowMatchEvaluated =>
        \A i \in 1..Len(cyc.pm.schedules) :
            (StartedToday(i) /\ StopRecordsOf(i) = {}) => cyc.pm.sim_info.active

\* C30 for the records whose first stop record of the same date, in file
\* order, is strictly later than now.
C30_FirstStopLater ==
    WindowMatchEvaluated =>
        \A i \in 1..Len(cyc.pm.schedules) :
            (/\ StartedToday(i)
             /\ StopRecordsOf(i) # {}
             /\ StrLess(TimeOf(cyc.at),
                        cyc.pm.schedules[MinOf(StopRecordsOf(i))].TIME))
                => /\ cyc.pm.sim_info.active
                   /\ cyc.pm.sim_info.end_time =
                          cyc.pm.schedules[MinOf(StopRecordsOf(i))].TIME

C30_FirstStopLaterWitness ==
    /\ WindowMatchEvaluated
    /\ cyc.pm.sim_info.active
    /\ \E i \in 1..Len(cyc.pm.schedules) : StartedToday(i) /\ StopLater(i)

\* Record i of the cycle's schedules is a recurring start record for today
\* whose time is at or before now.
RecurringStarted(i) ==
    LET p == cyc.pm.schedules[i]
    IN  /\ p.Action = "start" /\ p.TYPE = "recurring"
        /\ p.DAY_OF_WEEK \in {"everyday", DayNameOf(cyc.at)}
        /\ StrLeq(p.TIME, TimeOf(cyc.at))

\* The stop records of the same type and day of the week.
MatchingStops(i) ==
    { j \in 1..Len(cyc.pm.schedules) :
        /\ cyc.pm.schedules[j].Action = "stop"
        /\ cyc.pm.schedules[j].TYPE = cyc.pm.schedules[i].TYPE
        /\ cyc.pm.schedules[j].DAY_OF_WEEK = cyc.pm.schedules[i].DAY_OF_WEEK }

MatchingStopLater(i) ==
    /\ MatchingStops(i) # {}
    /\ StrLess(TimeOf(cyc.at), cyc.pm.schedules[MinOf(MatchingStops(i))].TIME)

\* C31: a recurring start record for today whose time is at or before now is
\* reported in window if and only if its matching stop record has a time
\* strictly later than now, or it has no matching stop record and now is
\* before 23:59; with a matching stop time at or before now it is not in
\* window.
C31_RecurringWindow ==
    WindowMatchEvaluated =>
        (cyc.pm.sim_info.active <=>
            \E i \in 1..Len(cyc.pm.schedules) :
                /\ RecurringStarted(i)
                /\ \/ MatchingStopLater(i)
                   \/ MatchingStops(i) = {} /\ StrLess(TimeOf(cyc.at), EndOfDay))

\* C31 without the case of a matching stop time at or before now.
C31_StopNotPassed ==
    (/\ WindowMatchEvaluated
     /\ \A i \in 1..Len(cyc.pm.schedules) :
            RecurringStarted(i) =>
                (MatchingStops(i) = {} \/ MatchingStopLater(i))) =>
        (cyc.pm.sim_info.active <=>
            \E i \in 1..Len(cyc.pm.schedules) :
                /\ RecurringStarted(i)
                /\ \/ MatchingStopLater(i)
                   \/ MatchingStops(i) = {} /\ StrLess(TimeOf(cyc.at), EndOfDay))

C31_StopNotPassedWitness ==
    /\ WindowMatchEvaluated
    /\ cyc.pm.sim_info.active
    /\ \E i \in 1..Len(cyc.pm.schedules) : RecurringStarted(i) /\ MatchingStopLater(i)

\* A recurring start record whose matching stop time has passed is in
\* window until 23:59.
C31_PassedStopInWindow ==
    /\ WindowMatchEvaluated
    /\ cyc.pm.sim_info.active
    /\ cyc.pm.sim_info.end_time = EndOfDay
    /\ \E i \in 1..Len(cyc.pm.schedules) :
          RecurringStarted(i) /\ MatchingStops(i) # {} /\ ~MatchingStopLater(i)

\* Record i of the schedules before the cycle names the minute of the cycle.
NamesThisMinute(i) ==
    LET p == cyc.preSchedules[i]
    IN  /\ p.TIME = TimeOf(cyc.at)
        /\ \/ p.TYPE = "one-time" /\ p.DATE = DateOf(cyc.at)
           \/ /\ p.TYPE = "recurring"
              /\ p.DAY_OF_WEEK \in {"everyday", DayNameOf(cyc.at)}

AnnouncementOf(action) ==
    IF action = "start" THEN "SIM_STARTED" ELSE "SIM_STOPPED_BY_SCHEDULE"

\* The window match gives the cycle's result under every assignment of
\* ENABLED to the records.
SameForEveryEnabled ==
    \A f \in [1..Len(cyc.pm.schedules) -> BOOLEAN] :
        ShouldSimulationBeActiveNow(WithEnabled(cyc.pm.schedules, f), cyc.at)
            = cyc.pm.sim_info

\* An action that the cycle executed is that of an enabled record naming the
\* minute; with no such record the schedules and the flag are left alone.
OnlyEnabledExecuted ==
    IF \E i \in 1..Len(cyc.preSchedules) :
           cyc.preSchedules[i].Enabled /\ NamesThisMinute(i)
    THEN ScheduleActions = 1 =>
            \E i \in 1..Len(cyc.preSchedules) :
                /\ cyc.preSchedules[i].Enabled /\ NamesThisMinute(i)
                /\ Sent(AnnouncementOf(cyc.preSchedules[i].Action))
    ELSE ScheduleActions = 0 /\ cyc.pm.schedules = cyc.preSchedules

\* C32: the result of the window match is the same for every assignment of
\* ENABLED values to the schedule records, while the exact match executes an
\* action only for records whose ENABLED value is true.
C32_EnabledAsymmetry ==
    /\ WindowMatchEvaluated => SameForEveryEnabled
    /\ CycleDone => OnlyEnabledExecuted

\* A disabled recurring start record is reported in window in a cycle that
\* did not execute it although it names the minute.
C32_Witness ==
    /\ WindowMatchEvaluated
    /\ cyc.pm.sim_info.active
    /\ cyc.iteration = 0
    /\ ScheduleActions = 0
    /\ \E i \in 1..Len(cyc.preSchedules) :
          /\ ~cyc.preSchedules[i].Enabled
          /\ cyc.preSchedules[i].TYPE = "recurring"
          /\ cyc.preSchedules[i].Action = "start"
          /\ NamesThisMinute(i)

\* The host's ping returned non-zero: the outcomes in which wakeonlan is run.
PingFailed(o) == o \in {"wol_sent", "wol_failed", "wol_timeout"}

\* The ping or the wakeonlan command of the host timed out.
TimedOut(o) == o \in {"ping_error", "wol_timeout"}

Selected(h) ==
    /\ AutoWol(h)
    /\ HasIpAndMac(h)
    /\ ~cyc.pm.config_sim \/ IgnoreSimulation(h)

\* C33: in a wake sequence a WoL packet is sent to a wake host if and only
\* if its AUTO_WOL is not false, it has IP and MAC, simulation mode is off or
\* its IGNORE_SIMULATION is true, and its ping fails; the packet goes to the
\* host's BROADCAST_IP or, without one, to the global default; a ping or WoL
\* timeout of a host is recorded as wol_error for that host and the other
\* hosts are processed all the same.
C33_HostSelection ==
    WakeSequenceRan =>
        \A h \in WakeHosts :
            /\ h \in cyc.pm.wol_cmd <=> (Selected(h) /\ PingFailed(cyc.out[h]))
            /\ h \in cyc.pm.wol_cmd =>
                  <<h, IF h = "WAKE_HOST_1" THEN "BROADCAST_IP"
                       ELSE "DEFAULT_BROADCAST_IP">> \in cyc.pm.wol_via
            /\ Cardinality(cyc.pm.wol_via) = Cardinality(cyc.pm.wol_cmd)
            /\ (Selected(h) /\ TimedOut(cyc.out[h])) =>
                  clientStatus[h] = Entry("wol_error", cyc.at)

\* The first host times out, the second gets its packet through the default
\* broadcast address, the hosts without AUTO_WOL and without MAC do not
\* answer the ping either.
C33_Witness ==
    /\ WakeSequenceRan
    /\ ~cyc.pm.config_sim
    /\ TimedOut(cyc.out["WAKE_HOST_1"])
    /\ cyc.pm.wol_via = { <<"WAKE_HOST_2", "DEFAULT_BROADCAST_IP">> }
    /\ PingFailed(cyc.out["WAKE_HOST_3"])
    /\ PingFailed(cyc.out["WAKE_HOST_4"])

\* A wake sequence in simulation mode sends to the host's own broadcast
\* address and leaves out the host that does not ignore simulation.
C33_WitnessSimulation ==
    /\ WakeSequenceRan
    /\ cyc.pm.config_sim
    /\ PingFailed(cyc.out["WAKE_HOST_2"])
    /\ cyc.pm.wol_via = { <<"WAKE_HOST_1", "BROADCAST_IP">> }

\* What _initiate_wol records for a host of the wake sequence.
RecordedFor(h) ==
    IF ~Selected(h) \/ cyc.out[h] = "online" THEN "none"
    ELSE IF cyc.out[h] \in {"wol_sent", "wol_failed"} THEN cyc.out[h]
    ELSE "wol_error"

\* C34 for a wake sequence whose reads of the client status store succeed:
\* one consolidated notification if and only if a packet was sent
\* successfully, wol_sent for every host whose packet was sent, wol_failed
\* where the send command failed, and no entry written for a host that
\* answered the ping or was not selected.
C34_Reporting ==
    [][(lastAct' = "cycle" /\ cyc'.pm.wol_ran) =>
          /\ Len(SelectSeq(cyc'.pm.notes, LAMBDA n : n = "WOL_INITIATED"))
                = IF cyc'.pm.woken # {} THEN 1 ELSE 0
          /\ \A h \in WakeHosts :
                LET o == cyc'.out[h]
                    sel == /\ AutoWol(h) /\ HasIpAndMac(h)
                           /\ ~cyc'.pm.config_sim \/ IgnoreSimulation(h)
                IN  /\ h \in cyc'.pm.woken <=> (sel /\ o = "wol_sent")
                    /\ (sel /\ o \in {"wol_sent", "wol_failed"}) =>
                          clientStatus'[h] = Entry(o, cyc'.at)
                    /\ (~sel \/ o = "online") =>
                          clientStatus'[h] = clientStatus[h]]_vars

\* A packet is sent to one host, the send command fails for none, another
\* host answers the ping and keeps the entry an API report gave it.
C34_ReportingWitness ==
    /\ WakeSequenceRan
    /\ cyc.pm.woken = {"WAKE_HOST_2"}
    /\ cyc.out["WAKE_HOST_1"] = "online"
    /\ clientStatus["WAKE_HOST_1"].status = "online"
    /\ clientStatus["WAKE_HOST_2"] = Entry("wol_sent", cyc.at)
    /\ Sent("WOL_INITIATED")

\* C34: when the wake sequence writes the entry of one IP, the entries of
\* the other IPs in the client status store are left as they are.
C34_OtherEntriesKept ==
    [][(wolPc = "temp" /\ wolPc' = "done" /\ statusFile.whole) =>
          \A ip \in ClientIps \ {WolIp} :
              ip \in statusFile.ips => ip \in statusFile'.ips]_vars

\* The log entries of the call of send made at tick tk: the call's own and
\* those of the sends it made itself.
EntriesAt(tk) == SelectSeq(sendLog, LAMBDA e : e.at = tk)

IsAttempt(e) == e.outcome \in {"delivered", "failed"}

\* C35: a call of send makes at most two delivery attempts, the original and,
\* when a delivery of another category failed, one APP_ERROR report; nothing
\* is sent after a failed APP_ERROR delivery, and the call returns without
\* raising.
C35_BoundedSend ==
    \A k \in 1..Len(sendLog) :
        LET e == sendLog[k]
            call == EntriesAt(e.at)
        IN  /\ Len(call) <= 2
            /\ Len(call) = 2 =>
                  /\ call[1].category # "APP_ERROR" /\ call[1].outcome = "failed"
                  /\ call[2].category = "APP_ERROR"
            /\ (e.category = "APP_ERROR" /\ e.outcome = "failed") =>
                  (k = Len(sendLog) \/ sendLog[k + 1].at # e.at)
            /\ e.outcome \in {"disabled", "debounced", "delivered", "failed"}

\* A POWER_FAIL delivery fails, the APP_ERROR report of it fails as well, and
\* a later call is made.
C35_Witness ==
    /\ Len(sendLog) >= 3
    /\ sendLog[1].category = "POWER_FAIL" /\ sendLog[1].outcome = "failed"
    /\ sendLog[2].category = "APP_ERROR" /\ sendLog[2].outcome = "failed"
    /\ sendLog[2].at = sendLog[1].at
    /\ sendLog[3].at # sendLog[2].at


Finished(p) == pc[p] \in {"released", "exited"}

\* C36: nothing raised inside a cycle leaves run(), whether its APP_ERROR
\* report is delivered, fails or raises; the loop of an invocation is left
\* only after its last sub-poll or by the constructor's exit, and an
\* invocation that has finished holds no lock.
C36_Containment ==
    /\ [](\A p \in Invocations :
             /\ pc[p] # "raised"
             /\ Finished(p) => \A i \in Invocations : flockHolder[i] # p)
    /\ [][\A p \in Invocations :
             (pc[p] = "running" /\ pc'[p] # "running") =>
                 \/ pc'[p] = "sys_exit"
                 \/ pc'[p] = "released" /\ subPolls[p] = CHECK_ITERATIONS]_vars

\* An invocation has run all its sub-polls and released the lock although
\* cycles raised: the report of one was attempted, that of another raised.
C36_Witness ==
    \E p \in Invocations :
        /\ pc[p] = "exited"
        /\ subPolls[p] = CHECK_ITERATIONS
        /\ \A i \in Invocations : flockHolder[i] # p
        /\ \E j, k \in 1..Len(sendLog) :
              /\ sendLog[j].outcome = "raised"
              /\ sendLog[k].outcome \in {"delivered", "failed"}

\* The constructor exits in the middle of an invocation and the lock is
\* released.
C36_WitnessExit ==
    \E p \in Invocations :
        /\ pc[p] = "released"
        /\ subPolls[p] \in 1..(CHECK_ITERATIONS - 1)
        /\ \A i \in Invocations : flockHolder[i] # p


\* The cycle found every sentinel unreachable after a cycle that had found
\* one reachable: a real outage began.
OutageBegan == cyc.prevUp /\ NoneReachable

\* C37: an outage that began in the cycle before is not over in this cycle
\* unless a POWER_FAIL notification was attempted in that cycle.
C37_OutageAnnounced ==
    [][(/\ lastAct' = "cycle" /\ cyc' # cyc
        /\ OutageBegan
        /\ \E k \in 1..Len(cyc'.pings) : cyc'.pings[k] = "up")
          => Sent("POWER_FAIL")]_vars

\* C37, the outages that begin while the state record is not POWER_FAIL:
\* the cycle that finds the outage attempts a POWER_FAIL notification.
C37_AnnouncedOnChange ==
    (CycleDone /\ OutageBegan /\ cyc.pre.STATE \notin {"POWER_FAIL", "POWER_RESTORED_SIM"})
        => Sent("POWER_FAIL")

C37_AnnouncedOnChangeWitness ==
    CycleDone /\ OutageBegan /\ cyc.pre.STATE = "POWER_RESTORED" /\ Sent("POWER_FAIL")


\* The cycles from this time on leave the wake delay room to pass before the
\* end of the run.
SettleTime == EndOfTime - MaxWolDelay * SecondsPerMinute

\* The last cycle met the simulation flag off, left it off, and found a
\* sentinel reachable.
PremiseHeld ==
    /\ ~cyc.preSim /\ ~cyc.pm.config_sim /\ ~cyc.pm.file_sim
    /\ SomeReachable

EpisodeOpen == stateFile.STATE \in {"POWER_FAIL", "POWER_RESTORED"}

\* C38: with cycles kept running, if from the cycle of SettleTime on every
\* cycle meets the simulation flag off and a sentinel reachable, the state
\* record ends up at its initial value, and an episode is closed only by a
\* cycle that runs the wake sequence.
C38_EpisodeCompletes ==
    /\ [](cyc.at >= SettleTime => PremiseHeld) => <>[](stateFile = EmptyStateFile)
    /\ [][(EpisodeOpen /\ stateFile'.STATE = "None") => cyc'.pm.wol_ran]_vars

\* An episode that began with a real outage is completed after the wake
\* delay, the flag off and a sentinel reachable in every cycle since.
C38_Witness ==
    /\ CycleDone /\ cyc.pre.STATE = "POWER_RESTORED" /\ cyc.wol_delay > 0
    /\ ~cyc.pre.SIMULATION
    /\ cyc.pm.wol_ran /\ stateFile = EmptyStateFile
    /\ ~cyc.preSim /\ ~cyc.pm.file_sim /\ SomeReachable


\* Record i was executed by the cycle: its action was announced, and a
\* one-time record was disabled.
Applied(i) ==
    LET p == cyc.preSchedules[i]
    IN  /\ Sent(AnnouncementOf(p.Action))
        /\ p.TYPE = "one-time" => ~cyc.pm.schedules[i].Enabled

DueRecords ==
    { i \in 1..Len(cyc.preSchedules) :
        cyc.preSchedules[i].Enabled /\ NamesThisMinute(i) }

\* C39: the first sub-poll of a minute applies every enabled record that
\* names the minute.
C39_NoMissedSchedule ==
    (CycleDone /\ cyc.iteration = 0) => \A i \in DueRecords : Applied(i)

\* C39, one record at most: the first enabled record that names the minute
\* is applied by the first sub-poll of the minute.
C39_FirstDueApplied ==
    (CycleDone /\ cyc.iteration = 0 /\ DueRecords # {}) => Applied(MinOf(DueRecords))

C39_FirstDueAppliedWitness ==
    /\ CycleDone /\ cyc.iteration = 0
    /\ DueRecords = {2} /\ Applied(2) /\ NamesThisMinute(1)


\* C40: a state record with SIM_INTERRUPTED=true names the interrupted
\* schedule and its end time, and a record with STATE=POWER_RESTORED_SIM
\* has SIMULATION=true and SIM_INTERRUPTED=true.
C40_RecordConsistent ==
    /\ stateFile.SIM_INTERRUPTED =>
          /\ stateFile.INTERRUPTED_SCHEDULE # NullInfo
          /\ stateFile.INTERRUPTED_SCHEDULE.schedule \in ScheduleSections
          /\ stateFile.INTERRUPTED_SCHEDULE.end_time # NoTime
    /\ stateFile.STATE = "POWER_RESTORED_SIM" =>
          stateFile.SIMULATION /\ stateFile.SIM_INTERRUPTED

\* A cycle has written a POWER_RESTORED_SIM record, and a cycle has written
\* a POWER_RESTORED record after an interruption whose window had ended.
C40_Witness ==
    /\ CycleDone /\ cyc.pre.STATE = "POWER_FAIL" /\ cyc.pre.SIM_INTERRUPTED
    /\ stateFile.STATE \in {"POWER_RESTORED_SIM", "POWER_RESTORED"}
    /\ stateFile.STATE = "POWER_RESTORED_SIM" => stateFile.SIM_INTERRUPTED

C40_WitnessWindowEnded ==
    /\ CycleDone /\ cyc.pre.STATE = "POWER_FAIL" /\ cyc.pre.SIM_INTERRUPTED
    /\ stateFile.STATE = "POWER_RESTORED" /\ ~stateFile.SIM_INTERRUPTED
============================================================================
